---- MODULE Spec2Model ----
(***************************************************************************)
(* Verification model of toot-3d's cross-thread machinery:                 *)
(*   net/retriever.rs  Retriever (request queue, worker, make_request)     *)
(*   ui/image.rs       WebImageCache / CachedImage                         *)
(*   ui/mod.rs         LogicImgPool / OpaqueImg, UiMsg mailbox,            *)
(*                     Ui::iteration                                       *)
(*   ui/text.rs        TextRenderer::create_lines                          *)
(* Each component has its own specification over the shared variables.     *)
(***************************************************************************)
EXTENDS Integers, Sequences, FiniteSets, TLC

\* ------------------------------------------------------------------------
\* Bounds
\* ------------------------------------------------------------------------
\* longest text given to create_lines
MaxLen == 6
\* largest width given to create_lines
MaxWidth == 6
\* largest scale given to create_lines
MaxScale == 2
\* number of WebImageCache.get calls in SpecCache
MaxGets == 2
\* longest input of one WebImageCache.get call
MaxGetLen == 2
\* number of messages the logic threads send in SpecUi
MaxMsgs == 3
\* number of frames the render thread runs in SpecUi
MaxFrames == 2
\* number of LogicImgPool.alloc calls in SpecPool
MaxImgs == 4
\* longest batch one Retriever.request call submits in SpecRetriever
MaxBatch == 2
\* number of Retriever.request calls the client thread makes in SpecAuth
MaxCalls == 2
\* number of set_token / set_instance calls in SpecAuth
MaxSets == 2
\* number of set_instance / set_token calls in SpecSwitch
MaxSwitch == 4

\* ------------------------------------------------------------------------
\* State
\* ------------------------------------------------------------------------
VARIABLES
    requests,    \* Retriever.requests channel: queue of (Request, Sender<Response>)
    chans,       \* per batch: the queue of its Response channel
    instance,    \* Retriever.instance
    token,       \* Retriever.token
    easy,        \* the worker's curl handle (options persist between requests)
    worker,      \* worker thread: position and the request taken from the queue
    performed,   \* history: the transfers curl performed, in order
    caller,      \* the threads that call Retriever.request
    calls,       \* SpecAuth: number of Retriever.request calls made
    sets,        \* SpecAuth: number of set_token/set_instance calls made
    closing,     \* Retriever::close: "open" until close is called, then its progress
    txt,         \* create_lines: the text to wrap, a sequence of characters
    wrapWidth,   \* create_lines: width
    wrapScale,   \* create_lines: scale
    lineWords,   \* create_lines: the words of every line pushed to `lines`
    textPc,      \* "input" before create_lines has run, "done" after
    used_ids,    \* LogicImgPool.used_ids
    mailbox,     \* the UiMsg channel from the logic threads to the render thread
    imgs,        \* the OpaqueImg handles that exist and are not being dropped
    nextImg,     \* number of OpaqueImg handles created so far
    dropping,    \* per thread: the OpaqueImg whose drop it is running, if any
    uiPool,      \* Ui.pool: for each bound id, the handle whose constructor built it
    screen,      \* Ui.screen (0 is EmptyScreen)
    iter,        \* render thread: position in Ui::iteration and the frame number
    sent,        \* history: every UiMsg sent, in the order of the sends
    applied,     \* history: every UiMsg popped by the render thread, in order
    waiting,     \* per logic thread: the reply it is blocked on, if any
    replies,     \* per logic thread: its reply channel
    entries,     \* WebImageCache.entries: for each URL its WebImage (0: none)
    webImages,   \* every WebImage created, by number
    handles,     \* for each WebImage, the number of CachedImage handles that hold it
    cacheLock,   \* the Mutex around entries: holder (0: free) and poison flag
    cthread,     \* per thread: position inside WebImageCache::get or a drop
    c2d,         \* citro2d.rs: CITRO_COUNT, FRAME_LOCK, the library, the
                 \* Citro2d instances and Frames alive, each thread's position
    glyph,       \* TextRenderer.cache and the history of the get_glyph calls
    tex          \* citro2d.rs: one TexDim::to_fit call, its argument and its result

retrieverVars == <<requests, chans, instance, token, easy, worker, performed>>
callerVars == <<caller, calls, sets, closing>>
textVars == <<txt, wrapWidth, wrapScale, lineWords, textPc>>
poolVars == <<used_ids, mailbox, imgs, nextImg, dropping>>
vars == <<requests, chans, instance, token, easy, worker, performed, caller, calls, sets, closing,
          txt, wrapWidth, wrapScale, lineWords, textPc,
          used_ids, mailbox, imgs, nextImg, dropping,
          uiPool, screen, iter, sent, applied, waiting, replies,
          entries, webImages, handles, cacheLock, cthread, c2d, glyph, tex>>
uiVars == <<uiPool, screen, iter, sent, applied, waiting, replies>>
cacheVars == <<entries, webImages, handles, cacheLock, cthread>>

\* the variables the Retriever specifications leave alone
notRetriever == <<textVars, poolVars, uiVars, cacheVars, c2d, glyph, tex>>
\* the variables SpecText leaves alone
notText == <<retrieverVars, callerVars, poolVars, uiVars, cacheVars, c2d, glyph, tex>>
\* the variables SpecPool leaves alone
notPool == <<retrieverVars, callerVars, textVars, uiVars, cacheVars, c2d, glyph, tex>>
\* the variables SpecUi leaves alone
notUi == <<retrieverVars, callerVars, textVars, cacheVars, c2d, glyph, tex>>
\* the variables SpecCache leaves alone
notCache == <<textVars, uiVars, caller, sets, closing, instance, token, dropping, c2d,
              glyph, tex>>

\* the render thread is not running: the state of Ui::new, never iterated
UiIdle ==
    /\ uiPool = {} /\ screen = 0
    /\ iter = [pc |-> "top", frame |-> 0]
    /\ sent = <<>> /\ applied = <<>>
    /\ waiting = [t \in {1, 2} |-> ""]
    /\ replies = [t \in {1, 2} |-> <<>>]

\* citro2d.rs before any Citro2d::new: the statics as initialised (lines 41,
\* 44), the library not initialised, no thread inside a citro2d call
CitroIdle ==
    c2d = [count |-> 0, lib |-> "off", made |-> 0, live |-> {}, lock |-> 0,
           frames |-> {}, c3d |-> 0, begun |-> 0, pc |-> [t \in {1, 2} |-> "idle"]]

\* TextRenderer::new line 66: the glyph cache is empty; no get_glyph call yet
GlyphIdle == glyph = [lru |-> <<>>, hist |-> <<>>, ret |-> <<>>, out |-> <<>>]

\* no TexDim::to_fit call is in progress
TexIdle == tex = [pc |-> "done", dim |-> 0, checked |-> FALSE, res |-> <<>>]

\* the image cache is not used: the state of WebImageCache::new
CacheIdle ==
    /\ entries = [u \in {} |-> 0]
    /\ webImages = <<>>
    /\ handles = <<>>
    /\ cacheLock = [holder |-> 0, poisoned |-> FALSE]
    /\ cthread = [t \in {1, 2} |-> [pc |-> "idle"]]

\* ------------------------------------------------------------------------
\* net/retriever.rs
\* ------------------------------------------------------------------------
\* Threads that submit batches concurrently in SpecRetriever; a batch is
\* identified by the thread that created its channel.
Callers == {1, 2}

\* A URL is its host and whether it is well formed: "nul" has an interior
\* NUL byte (CString::new fails), "bad" does not parse as a url::Url.
Hosts == {"example.social", "EXAMPLE.social", "cdn.other.example", "10.0.0.1"}
URL == [host : Hosts, form : {"ok", "nul", "bad"}]
MkUrl(h) == [host |-> h, form |-> "ok"]

Method == {"Get", "Post"}

\* values given to set_instance and set_token
Instances == {"example.social", "EXAMPLE.social"}
Tokens == {"", "tokA"}

\* HTTP status codes the server may answer with
Statuses == {200, 204, 404}

\* What the network does with one transfer: a transport failure, or a
\* status line and a body.
Outcomes == {[kind |-> "transport", code |-> 0]} \cup
            {[kind |-> "status", code |-> c] : c \in Statuses}

\* url::Url host normalisation: the parser lower-cases the host.
Lower(h) == IF h = "EXAMPLE.social" THEN "example.social" ELSE h

\* Url::domain(): None for an IP-address host, Some(lower-cased host) else.
DomainOf(u) == IF u.host = "10.0.0.1" THEN <<>> ELSE <<Lower(u.host)>>

\* Response = Result<Vec<u8>, Box<dyn Error>>. The body records the request
\* it answers (the bytes the server serves for that request).
RespOk(req)     == [kind |-> "ok", code |-> 200, for |-> req.id, url |-> req.url]
RespHttp(req, c) == [kind |-> "HttpError", code |-> c, for |-> req.id, url |-> req.url]
RespCurl(req)   == [kind |-> "CurlError", code |-> 0, for |-> req.id, url |-> req.url]
RespOther(req)  == [kind |-> "OtherError", code |-> 0, for |-> req.id, url |-> req.url]

\* Easy::new(): no bearer, no mime attached
EasyNew == [bearer |-> <<>>, mimepost |-> FALSE]

\* Easy::bearer(Some(t)) / Easy::bearer(None)
EasyBearer(e, b) == [e EXCEPT !.bearer = b]

\* make_request line 58: easy.bearer(None)? clears what an earlier request
\* left on the handle
BearerKeep(e) == e
BearerReset(e) == EasyBearer(e, <<>>)

\* make_request lines 59-67: with a non-empty token, attach it when the
\* domain of the URL equals the instance (the URL is known to parse)
BearerDecide(e, req, inst, tok) ==
    IF tok # "" /\ DomainOf(req.url) # <<>> /\ DomainOf(req.url)[1] = inst
    THEN EasyBearer(e, <<tok>>) ELSE e

\* make_request lines 78-84: the Response for a completed transfer
ResponseOf(req, code) ==
    IF code # 200 THEN RespHttp(req, code) ELSE RespOk(req)

\* make_request(easy, request, instance, token) with the network's outcome:
\* the new handle state, the Response, and the transfer performed (if any).
make_request(e, req, inst, tok, out) ==
    IF req.url.form = "nul"
    THEN \* easy.url(..)? fails: nothing on the handle changes
         [easy |-> e, resp |-> RespOther(req), xfer |-> <<>>]
    ELSE IF tok # "" /\ req.url.form = "bad"
    THEN \* Url::from_str(..)? fails after easy.bearer(None)
         [easy |-> BearerReset(e), resp |-> RespOther(req), xfer |-> <<>>]
    ELSE LET e1 == BearerDecide(BearerReset(e), req, inst, tok)
             \* perform_with_mime sets MIMEPOST before the transfer
             e2 == IF req.method = "Post" THEN [e1 EXCEPT !.mimepost = TRUE] ELSE e1
             \* perform()? fails on a transport failure (and on a URL curl
             \* cannot parse)
             failed == req.url.form = "bad" \/ out.kind = "transport"
             \* a failed Post returns before MIMEPOST is cleared
             e3 == IF req.method = "Post" /\ ~failed
                   THEN [e2 EXCEPT !.mimepost = FALSE] ELSE e2
             resp == IF failed THEN RespCurl(req) ELSE ResponseOf(req, out.code)
         IN [easy |-> e3, resp |-> resp,
             xfer |-> <<[id |-> req.id, url |-> req.url, bearer |-> e2.bearer,
                         mime |-> e2.mimepost, failed |-> failed,
                         out |-> out, resp |-> resp]>>]

\* worker loop: req_rx.recv() hands over the head of the queue
WorkerRecv ==
    /\ worker.pc = "recv"
    /\ requests # <<>>
    /\ worker' = [pc |-> "busy", cur |-> <<Head(requests)>>]
    /\ requests' = Tail(requests)
    /\ UNCHANGED <<chans, instance, token, easy, performed>>

\* the Receiver of the batch of req has not been dropped
ReceiverAlive(req) == chans[req.tx].rx /\ chans[req.tx].call = req.id[2]

\* worker loop: res.send(make_request(..)).unwrap(), where the network
\* answers the transfer with one of Outs; log says whether the history
\* variable performed records the transfer; the worker is at position at
\* and make_request sees the instance inst and the token tok
WorkerPerformAt(at, Outs, log, inst, tok) ==
    /\ worker.pc = at
    /\ \E out \in Outs :
        LET req == worker.cur[1]
            r   == make_request(easy, req, inst, tok, out)
        IN /\ easy' = r.easy
           /\ performed' = IF log THEN performed \o r.xfer ELSE performed
           /\ IF ReceiverAlive(req)
              THEN /\ chans' = [chans EXCEPT ![req.tx].q = @ \o <<r.resp>>]
                   /\ worker' = [pc |-> "recv", cur |-> <<>>]
                   /\ UNCHANGED requests
              ELSE \* send fails, unwrap panics: the thread unwinds and
                   \* drops req_rx with everything still queued
                   /\ worker' = [pc |-> "panicked", cur |-> <<>>]
                   /\ requests' = <<>>
                   /\ UNCHANGED chans
    /\ UNCHANGED <<instance, token>>

\* the whole of make_request in one step, with the values of the two mutexes
WorkerPerform(Outs, log) == WorkerPerformAt("busy", Outs, log, instance, token)

\* Retriever::set_token / Retriever::set_instance
SetToken(t) ==
    /\ token' = t
    /\ UNCHANGED <<requests, chans, instance, easy, worker, performed>>

SetInstance(i) ==
    /\ instance' = i
    /\ UNCHANGED <<requests, chans, token, easy, worker, performed>>

\* Retriever::request, one iteration of its loop: self.requests.send(..)
SendRequestFront(req) == requests' = <<req>> \o requests
SendRequest(req) == requests' = Append(requests, req)

\* Retriever::new(): empty queue, empty instance and token, idle worker
RetrieverInit ==
    /\ requests = <<>>
    /\ chans = [b \in Callers |-> [q |-> <<>>, rx |-> FALSE, call |-> 0]]
    /\ instance = ""
    /\ token = ""
    /\ easy = EasyNew
    /\ worker = [pc |-> "recv", cur |-> <<>>]
    /\ performed = <<>>

\* ------------------------------------------------------------------------
\* Callers of the Retriever
\* ------------------------------------------------------------------------
\* a request's id: the thread, the number of its call, the position in the batch
Request(b, k, u, m) == [id |-> <<b, calls, k>>, url |-> u, method |-> m, tx |-> b]

\* caller t enters Retriever::request(batch) with a batch built from the
\* (url, method) pairs of Shapes: channel() is created
CallRequest(t, Shapes, maxLen) ==
    /\ caller[t].pc = "idle"
    /\ \E n \in 0..maxLen : \E bt \in [1..n -> Shapes] :
        caller' = [caller EXCEPT ![t] =
            [pc |-> "sending",
             batch |-> [k \in 1..n |-> Request(t, k, bt[k][1], bt[k][2])],
             sent |-> 0, got |-> <<>>]]
    /\ chans' = [chans EXCEPT ![t] = [q |-> <<>>, rx |-> TRUE, call |-> calls]]
    /\ UNCHANGED <<requests, instance, token, easy, worker, performed>>

\* one iteration of the loop of Retriever::request
CallSend(t) ==
    /\ caller[t].pc = "sending"
    /\ caller[t].sent < Len(caller[t].batch)
    /\ SendRequest(caller[t].batch[caller[t].sent + 1])
    /\ caller' = [caller EXCEPT ![t].sent = @ + 1]
    /\ UNCHANGED <<chans, instance, token, easy, worker, performed, calls, sets, closing>>

\* Retriever::request returns the receiver
CallReturn(t) ==
    /\ caller[t].pc = "sending"
    /\ caller[t].sent = Len(caller[t].batch)
    /\ caller' = [caller EXCEPT ![t].pc = "receiving"]
    /\ UNCHANGED <<retrieverVars, calls, sets, closing>>

\* the caller receives one response: rx.recv()
CallRecv(t) ==
    /\ caller[t].pc = "receiving"
    /\ Len(caller[t].got) < Len(caller[t].batch)
    /\ chans[t].q # <<>>
    /\ caller' = [caller EXCEPT ![t].got = Append(@, Head(chans[t].q))]
    /\ chans' = [chans EXCEPT ![t].q = Tail(@)]
    /\ UNCHANGED <<requests, instance, token, easy, worker, performed, calls, sets, closing>>

\* the caller has received len(batch) responses and drops the receiver
CallDone(t) ==
    /\ caller[t].pc = "receiving"
    /\ Len(caller[t].got) = Len(caller[t].batch)
    /\ caller' = [caller EXCEPT ![t].pc = "done"]
    /\ chans' = [chans EXCEPT ![t].rx = FALSE]
    /\ UNCHANGED <<requests, instance, token, easy, worker, performed, calls, sets, closing>>

WorkerRecvR == WorkerRecv /\ UNCHANGED <<callerVars, notRetriever>>

CallerInit ==
    /\ caller = [t \in Callers |-> [pc |-> "idle", batch |-> <<>>, sent |-> 0, got |-> <<>>]]
    /\ calls = 0
    /\ sets = 0
    /\ closing = "open"

\* ------------------------------------------------------------------------
\* SpecRetriever: two threads submit one batch each, concurrently, and
\* receive its responses
\* ------------------------------------------------------------------------
BatchShapes == {<<MkUrl("cdn.other.example"), "Get">>}

\* in SpecRetriever a transfer fails or is answered with 200
BatchOutcomes == {o \in Outcomes : o.kind = "transport" \/ o.code = 200}

WorkerPerformR == WorkerPerform(BatchOutcomes, TRUE) /\ UNCHANGED <<callerVars, notRetriever>>

CallRequestR(t) ==
    /\ CallRequest(t, BatchShapes, MaxBatch)
    /\ UNCHANGED <<calls, sets, closing, notRetriever>>

CallSendR(t) == CallSend(t) /\ UNCHANGED notRetriever
CallReturnR(t) == CallReturn(t) /\ UNCHANGED notRetriever
CallRecvR(t) == CallRecv(t) /\ UNCHANGED notRetriever
CallDoneR(t) == CallDone(t) /\ UNCHANGED notRetriever

\* the components that SpecRetriever and SpecAuth do not run
RetrieverOnly ==
    /\ txt = <<>> /\ wrapWidth = 0 /\ wrapScale = 1 /\ lineWords = <<>>
    /\ textPc = "done"
    /\ used_ids = {} /\ mailbox = <<>> /\ imgs = {} /\ nextImg = 0
    /\ dropping = [t \in Callers |-> <<>>]
    /\ UiIdle
    /\ CacheIdle
    /\ CitroIdle
    /\ GlyphIdle
    /\ TexIdle

InitRetriever ==
    /\ RetrieverInit
    /\ CallerInit
    /\ RetrieverOnly

NextRetriever ==
    \/ \E t \in Callers : CallRequestR(t)
    \/ \E t \in Callers : CallSendR(t)
    \/ \E t \in Callers : CallReturnR(t)
    \/ \E t \in Callers : CallRecvR(t)
    \/ \E t \in Callers : CallDoneR(t)
    \/ WorkerRecvR
    \/ WorkerPerformR

SpecRetriever == InitRetriever /\ [][NextRetriever]_vars

\* the requests of batch b that are queued or held by the worker
Pending(b) ==
    Len(SelectSeq(requests, LAMBDA r : r.tx = b))
    + (IF worker.cur # <<>> /\ worker.cur[1].tx = b THEN 1 ELSE 0)

\* the responses batch b's receiver has yielded or still holds
Delivered(b) == caller[b].got \o chans[b].q

Client == 1

AuthShapes == {<<MkUrl("example.social"), "Get">>,
               <<MkUrl("example.social"), "Post">>,
               <<MkUrl("cdn.other.example"), "Get">>,
               <<MkUrl("EXAMPLE.social"), "Get">>,
               <<MkUrl("10.0.0.1"), "Get">>,
               <<[host |-> "example.social", form |-> "bad"], "Get">>,
               <<[host |-> "example.social", form |-> "nul"], "Get">>}

WorkerPerformA == WorkerPerform(Outcomes, TRUE) /\ UNCHANGED <<callerVars, notRetriever>>

CallRequestA ==
    /\ calls < MaxCalls
    /\ calls' = calls + 1
    /\ CallRequest(Client, AuthShapes, 1)
    /\ UNCHANGED <<sets, closing, notRetriever>>

CallSendA == CallSend(Client) /\ UNCHANGED notRetriever
CallReturnA == CallReturn(Client) /\ UNCHANGED notRetriever
CallRecvA == CallRecv(Client) /\ UNCHANGED notRetriever
CallDoneA == CallDone(Client) /\ UNCHANGED notRetriever

\* the client thread is ready for its next call
CallAgain ==
    /\ caller[Client].pc = "done"
    /\ caller' = [caller EXCEPT ![Client].pc = "idle"]
    /\ UNCHANGED <<retrieverVars, calls, sets, closing, notRetriever>>

CallSetToken ==
    /\ sets < MaxSets
    /\ sets' = sets + 1
    /\ \E t \in Tokens : SetToken(t)
    /\ UNCHANGED <<caller, calls, closing, notRetriever>>

CallSetInstance ==
    /\ sets < MaxSets
    /\ sets' = sets + 1
    /\ \E i \in Instances : SetInstance(i)
    /\ UNCHANGED <<caller, calls, closing, notRetriever>>

InitAuth ==
    /\ RetrieverInit
    /\ CallerInit
    /\ RetrieverOnly

NextAuth ==
    \/ CallRequestA
    \/ CallSendA
    \/ CallReturnA
    \/ CallRecvA
    \/ CallDoneA
    \/ CallAgain
    \/ CallSetToken
    \/ CallSetInstance
    \/ WorkerRecvR
    \/ WorkerPerformA

SpecAuth == InitAuth /\ [][NextAuth]_vars

\* ------------------------------------------------------------------------
\* SpecSwitch: the client configures instance A with its token, then
\* switches to instance B with B's token (set_instance, then set_token),
\* while requests to both domains are queued and performed
\* ------------------------------------------------------------------------
InstanceA == "example.social"
InstanceB == "cdn.other.example"

\* the token the user holds for each instance
TokenOf(i) == IF i = InstanceA THEN "tokA" ELSE "tokB"

SwitchShapes == {<<MkUrl(InstanceA), "Get">>, <<MkUrl(InstanceB), "Get">>}

\* the instance the client is configuring: A first, then B, in turns
SwitchTarget == IF sets % 4 < 2 THEN InstanceA ELSE InstanceB

\* Retriever::set_instance(target), the first call of a switch
SwitchInstance ==
    /\ sets < MaxSwitch
    /\ sets % 2 = 0
    /\ sets' = sets + 1
    /\ SetInstance(SwitchTarget)
    /\ UNCHANGED <<caller, calls, closing, notRetriever>>

\* Retriever::set_token(token of the target), the second call of a switch
SwitchToken ==
    /\ sets < MaxSwitch
    /\ sets % 2 = 1
    /\ sets' = sets + 1
    /\ SetToken(TokenOf(SwitchTarget))
    /\ UNCHANGED <<caller, calls, closing, notRetriever>>

CallRequestS ==
    /\ calls < MaxCalls
    /\ calls' = calls + 1
    /\ CallRequest(Client, SwitchShapes, 1)
    /\ UNCHANGED <<sets, closing, notRetriever>>

NextSwitch ==
    \/ CallRequestS
    \/ CallSendA
    \/ CallReturnA
    \/ CallRecvA
    \/ CallDoneA
    \/ CallAgain
    \/ SwitchInstance
    \/ SwitchToken
    \/ WorkerRecvR
    \/ WorkerPerformA

SpecSwitch == InitAuth /\ [][NextSwitch]_vars

\* C38: every transfer that carries a bearer token goes to the domain of the
\* instance that token was configured for; in particular no transfer to B's
\* domain performed between set_instance(B) and set_token(tB) carries tA.
C38_TokenStaysWithInstance ==
    \A i \in 1..Len(performed) :
        performed[i].bearer # <<>> =>
            performed[i].bearer = <<TokenOf(DomainOf(performed[i].url)[1])>>

\* the transfer the worker performs in this step, if it performs one
PerformedNow == Len(performed') = Len(performed) + 1
LastXfer == performed'[Len(performed')]

\* C7: a transfer carries the bearer token iff the token configured when the
\* worker performs it is non-empty and the domain of its URL equals the
\* configured instance; the bearer of an earlier request is not carried over.
C7_AuthPolicy ==
    [][PerformedNow =>
          /\ (LastXfer.bearer # <<>>) <=>
                (token # "" /\ DomainOf(LastXfer.url) = <<instance>>)
          /\ (LastXfer.bearer # <<>> => LastXfer.bearer = <<token>>)]_vars

\* a request to the instance carried the token and the next one, to another
\* domain with the token still configured, did not
C7_Witness ==
    /\ Len(performed) = 2
    /\ token = "tokA" /\ instance = "example.social"
    /\ performed[1].url = MkUrl("example.social") /\ performed[1].bearer = <<"tokA">>
    /\ performed[2].url = MkUrl("cdn.other.example") /\ performed[2].bearer = <<>>

\* C8: a performed request yields HttpError(code) exactly when the status is
\* not 2xx, the body for every 2xx status, and an error that is not an
\* HttpError for a transport failure.
C8_StatusClaim ==
    \A i \in 1..Len(performed) :
        LET x == performed[i] IN
        IF x.failed
        THEN x.resp.kind \notin {"ok", "HttpError"}
        ELSE /\ (x.resp.kind = "HttpError") <=> (x.out.code \notin 200..299)
             /\ (x.resp.kind = "HttpError" => x.resp.code = x.out.code)
             /\ (x.out.code \in 200..299 => x.resp.kind = "ok")

\* the worker has performed a transfer in this step
Transferred == Len(performed') = Len(performed) + 1

\* C34: the method of a request depends only on that request: a transfer is
\* made with the form-post setting on the handle exactly when its request
\* is a Post, and the setting is cleared after every transfer, failed or not.
C34_MethodPerRequest ==
    [][Transferred =>
          /\ performed'[Len(performed')].mime = (worker.cur[1].method = "Post")
          /\ ~easy'.mimepost]_vars

\* ------------------------------------------------------------------------
\* SpecRead: SpecAuth with make_request in the steps in which it reads the
\* token and the instance (lines 59, 62) and performs the transfer (74-76)
\* ------------------------------------------------------------------------
ReadShapes == {<<MkUrl("example.social"), "Get">>,
               <<MkUrl("cdn.other.example"), "Get">>}

CallRequestD ==
    /\ calls < MaxCalls
    /\ calls' = calls + 1
    /\ CallRequest(Client, ReadShapes, 1)
    /\ UNCHANGED <<sets, closing, notRetriever>>

\* set_token line 138: token.lock() waits while make_request holds the guard
CallSetTokenUnlocked ==
    /\ worker.pc # "locked"
    /\ CallSetToken

\* make_request line 59: let token = token.lock().unwrap()
WorkerLockToken ==
    /\ worker.pc = "busy"
    /\ worker' = [pc |-> "locked", cur |-> worker.cur, tok |-> token]
    /\ UNCHANGED <<requests, chans, instance, token, easy, performed,
                   callerVars, notRetriever>>

\* make_request lines 60-67: the instance is read and compared under its own
\* lock, the bearer is decided, and the token guard is dropped
WorkerReadInstance ==
    /\ worker.pc = "locked"
    /\ worker' = [pc |-> "read", cur |-> worker.cur, tok |-> worker.tok,
                  inst |-> instance]
    /\ UNCHANGED <<requests, chans, instance, token, easy, performed,
                   callerVars, notRetriever>>

\* make_request lines 63 and 74-76: the transfer carries what easy.bearer was
\* given from the guard, not what the mutex holds when curl runs
CurrentValue(read, current) == current
ReadValue(read, current) == read

\* make_request lines 68-84 and the send of the Response
WorkerTransfer ==
    /\ WorkerPerformAt("read", BatchOutcomes, TRUE,
                       ReadValue(worker.inst, instance), ReadValue(worker.tok, token))
    /\ UNCHANGED <<callerVars, notRetriever>>

InitRead == InitAuth

NextRead ==
    \/ CallRequestD
    \/ CallSendA
    \/ CallReturnA
    \/ CallRecvA
    \/ CallDoneA
    \/ CallAgain
    \/ CallSetTokenUnlocked
    \/ CallSetInstance
    \/ WorkerRecvR
    \/ WorkerLockToken
    \/ WorkerReadInstance
    \/ WorkerTransfer

SpecRead == InitRead /\ [][NextRead]_vars

\* the bearer a request to url carries when make_request saw inst and tok
Carried(url, inst, tok) ==
    IF tok # "" /\ DomainOf(url) = <<inst>> THEN <<tok>> ELSE <<>>

\* C24: the worker reads the token and the instance while it performs the
\* request, so it sees every set_token and set_instance made before those
\* reads, also one made after the request was enqueued; the token cannot
\* change while its guard is held; and the transfer carries the bearer
\* decided from the values read, whatever is set after the reads.
C24_ValuesAtPerform ==
    [][/\ (worker.pc = "busy" /\ worker'.pc = "locked") => worker'.tok = token
       /\ (worker.pc = "locked") =>
             /\ token' = token
             /\ (worker'.pc = "read" =>
                    worker'.tok = worker.tok /\ worker'.inst = instance)
       /\ (worker.pc = "read" /\ worker'.pc = "read") => worker' = worker
       /\ (worker.pc = "read" /\ PerformedNow) =>
             LastXfer.bearer = Carried(LastXfer.url, worker.inst, worker.tok)]_vars

\* a request to the instance is being performed: the worker has read the
\* token "tokA", set after the request was enqueued, and an instance that
\* does not match, and set_instance has made the instance match before the
\* transfer
C24_Witness ==
    /\ worker.pc = "read"
    /\ worker.cur[1].url = MkUrl("example.social")
    /\ worker.tok = "tokA" /\ worker.inst = ""
    /\ token = "tokA" /\ instance = "example.social"
    /\ sets = 2

\* ------------------------------------------------------------------------
\* SpecClose: two threads submit batches, receive their responses or drop
\* the receiver early, and the owner calls Retriever::close
\* ------------------------------------------------------------------------
\* a caller drops the receiver of its batch before it has received every
\* response (as WebImageCache::get does when it returns an error)
CallAbandon(t) ==
    /\ caller[t].pc = "receiving"
    /\ Len(caller[t].got) < Len(caller[t].batch)
    /\ caller' = [caller EXCEPT ![t].pc = "done"]
    /\ chans' = [chans EXCEPT ![t].rx = FALSE]
    /\ UNCHANGED <<requests, instance, token, easy, worker, performed, calls, sets,
                   closing, notRetriever>>

\* Retriever::request needs the Retriever, which close consumes
CallRequestOpen(t) == closing = "open" /\ CallRequestR(t)

\* Retriever::close line 132: drop(self.requests); no call of request is
\* running, since close takes the Retriever by value
Close ==
    /\ closing = "open"
    /\ \A t \in Callers : caller[t].pc # "sending"
    /\ closing' = "joining"
    /\ UNCHANGED <<retrieverVars, caller, calls, sets, notRetriever>>

\* worker loop line 101: req_rx.recv() is Err once the sender is dropped and
\* the queue is empty; the loop ends and the thread returns
WorkerExit ==
    /\ worker.pc = "recv"
    /\ requests = <<>>
    /\ closing # "open"
    /\ worker' = [pc |-> "exited", cur |-> <<>>]
    /\ UNCHANGED <<requests, chans, instance, token, easy, performed, callerVars,
                   notRetriever>>

\* Retriever::close line 134: self.thread.join().unwrap(); join is Err when
\* the worker thread panicked
Join ==
    /\ closing = "joining"
    /\ worker.pc \in {"exited", "panicked"}
    /\ closing' = IF worker.pc = "exited" THEN "returned" ELSE "panicked"
    /\ UNCHANGED <<retrieverVars, caller, calls, sets, notRetriever>>

InitClose == InitRetriever

NextClose ==
    \/ \E t \in Callers : CallRequestOpen(t)
    \/ \E t \in Callers : CallSendR(t)
    \/ \E t \in Callers : CallReturnR(t)
    \/ \E t \in Callers : CallRecvR(t)
    \/ \E t \in Callers : CallDoneR(t)
    \/ \E t \in Callers : CallAbandon(t)
    \/ WorkerRecvR
    \/ WorkerPerformR
    \/ WorkerExit
    \/ Close
    \/ Join

SpecClose == InitClose /\ [][NextClose]_vars

\* C19: the join in close does not panic, and when close has returned the
\* worker has exited with every enqueued request performed and answered.
C19_CloseReturns ==
    /\ closing # "panicked"
    /\ closing = "returned" =>
          /\ worker.pc = "exited"
          /\ requests = <<>>
          /\ \A b \in Callers :
                Cardinality({i \in 1..Len(performed) : performed[i].id[1] = b})
                    = caller[b].sent

\* the number of elements of the sequence q that satisfy Test
CountIn(q, Test(_)) == Cardinality({i \in 1..Len(q) : Test(q[i])})

\* C25: every request a caller has enqueued is either still waiting (queued
\* or in the worker's hands) or has been performed once, never both and
\* never twice; and its batch's channel has been given at most one Response
\* for it, none before it was performed.
C25_ExactlyOnce ==
    \A b \in Callers : \A k \in 1..caller[b].sent :
        LET id == caller[b].batch[k].id
            done == CountIn(performed, LAMBDA x : x.id = id)
            waits == CountIn(requests \o worker.cur, LAMBDA r : r.id = id)
            answers == CountIn(Delivered(b), LAMBDA r : r.for = id)
        IN /\ done + waits = 1
           /\ answers <= done
           /\ (done = 1 /\ chans[b].rx) => answers = 1

\* C33: the worker keeps serving after a caller has dropped the receiver of
\* a batch whose requests are still queued or in flight: the worker thread
\* does not stop, and no request of a batch whose receiver is alive is lost.
C33_WorkerSurvivesAbandon ==
    /\ worker.pc # "panicked"
    /\ \A b \in Callers :
          chans[b].rx => Len(Delivered(b)) + Pending(b) = caller[b].sent

\* ------------------------------------------------------------------------
\* ui/text.rs: TextRenderer::create_lines
\* ------------------------------------------------------------------------
\* The characters of the texts: a narrow and a wide letter, the space and
\* the line feed.
Chars == {"i", "w", " ", "\n"}

\* Glyph.x_advance * TextRenderer.scale of a character, in pixels at scale 1
Advance(c) == IF c = "w" THEN 2 ELSE 1

\* TextRenderer::text_width(word, scale)
RECURSIVE text_width(_, _)
text_width(word, scale) ==
    IF word = <<>> THEN 0
    ELSE Advance(Head(word)) * scale + text_width(Tail(word), scale)

\* unicode_linebreak::linebreaks(text) on these characters: the break
\* opportunity after the first i characters, for 0 < i < Len(text). A line
\* feed forces a break after it (LB4/LB5); there is no break before a space
\* or a line feed (LB6, LB7); a break is allowed after spaces (LB18); there
\* is none between letters (LB28).
BreakAfter(text, i) ==
    IF text[i] = "\n" THEN "Mandatory"
    ELSE IF text[i + 1] \in {" ", "\n"} THEN "None"
    ELSE IF text[i] = " " THEN "Allowed"
    ELSE "None"

RECURSIVE BreaksFrom(_, _)
BreaksFrom(text, i) ==
    IF i >= Len(text)
    THEN \* LB3: the end of the text is always a mandatory break
         <<<<Len(text), "Mandatory">>>>
    ELSE (IF BreakAfter(text, i) = "None" THEN <<>>
          ELSE <<<<i, BreakAfter(text, i)>>>>) \o BreaksFrom(text, i + 1)

\* linebreaks(text) for a non-empty text
linebreaks(text) == BreaksFrom(text, 1)

\* create_lines line 142: linebreaks(text).chain([(text.len(), Mandatory)])
UnchainedBreaks(text) == linebreaks(text)
ChainedBreaks(text) == linebreaks(text) \o <<<<Len(text), "Mandatory">>>>

\* str::replace('\n', "")
RECURSIVE StripNewlines(_)
StripNewlines(w) ==
    IF w = <<>> THEN <<>>
    ELSE (IF Head(w) = "\n" THEN <<>> ELSE <<Head(w)>>) \o StripNewlines(Tail(w))

\* [String]::concat
RECURSIVE Concat(_)
Concat(ws) == IF ws = <<>> THEN <<>> ELSE Head(ws) \o Concat(Tail(ws))

\* create_lines line 158: the line is flushed at a mandatory break unless
\* this iteration already pushed a line
FlushAtAnyMandatory(pushed, rule) == rule = "Mandatory"
FlushAtBreak(pushed, rule) == ~pushed /\ rule = "Mandatory"

\* create_lines line 150: the word does not fit behind the pending words
OverflowsBeforeWord(pos, word_width, width) == pos > width
Overflows(pos, word_width, width) == pos + word_width > width

\* the loop of create_lines from the k-th break on; words is the pending
\* line, lines the lines pushed so far, each kept as its list of words
RECURSIVE WrapLoop(_, _, _, _, _, _, _, _)
WrapLoop(text, width, scale, brks, k, words, pos, lines) ==
    IF k > Len(brks) THEN lines
    ELSE LET index_offset == IF k = 1 THEN 0 ELSE brks[k - 1][1]
             index  == brks[k][1]
             rule   == brks[k][2]
             word   == StripNewlines(SubSeq(text, index_offset + 1, index))
             word_width == text_width(word, scale)
             pushed == Overflows(pos, word_width, width)
             lines1 == IF pushed THEN Append(lines, words) ELSE lines
             words1 == (IF pushed THEN <<>> ELSE words) \o <<word>>
             pos1   == (IF pushed THEN 0 ELSE pos) + word_width
         IN IF FlushAtBreak(pushed, rule)
            THEN WrapLoop(text, width, scale, brks, k + 1, <<>>, 0,
                          Append(lines1, words1))
            ELSE WrapLoop(text, width, scale, brks, k + 1, words1, pos1, lines1)

\* the words of the lines create_lines(text, width, scale) returns
CreateLineWords(text, width, scale) ==
    WrapLoop(text, width, scale, ChainedBreaks(text), 1, <<>>, 0, <<>>)

\* the Vec<String> create_lines returns: every line is words.concat()
LinesOf(lw) == [i \in 1..Len(lw) |-> Concat(lw[i])]

\* the texts given to create_lines: non-empty, up to MaxLen characters
Texts == UNION {[1..n -> Chars] : n \in 1..MaxLen}

\* TextLines::new calls create_lines(text, width, scale)
CreateLines ==
    /\ textPc = "input"
    /\ lineWords' = CreateLineWords(txt, wrapWidth, wrapScale)
    /\ textPc' = "done"
    /\ UNCHANGED <<txt, wrapWidth, wrapScale, notText>>

InitText ==
    /\ txt \in Texts
    /\ wrapWidth \in 0..MaxWidth
    /\ wrapScale \in 1..MaxScale
    /\ lineWords = <<>>
    /\ textPc = "input"
    /\ RetrieverInit
    /\ CallerInit
    /\ used_ids = {} /\ mailbox = <<>> /\ imgs = {} /\ nextImg = 0
    /\ dropping = [t \in Callers |-> <<>>]
    /\ UiIdle
    /\ CacheIdle
    /\ CitroIdle
    /\ GlyphIdle
    /\ TexIdle

NextText == CreateLines

SpecText == InitText /\ [][NextText]_vars

\* the pixel width of a line at the scale of the call
LineWidth(line) == text_width(Concat(line), wrapScale)

\* the words of a line that have characters
RealWords(line) == SelectSeq(line, LAMBDA w : w # <<>>)

IsWord(s) == s # <<>> /\ \A i \in 1..Len(s) : s[i] \in {"i", "w"}

\* a line without the spaces at its end
RECURSIVE TrimEnd(_)
TrimEnd(l) ==
    IF l # <<>> /\ l[Len(l)] = " " THEN TrimEnd(SubSeq(l, 1, Len(l) - 1)) ELSE l

TrimmedLines == [i \in 1..Len(lineWords) |-> TrimEnd(Concat(lineWords[i]))]

\* C6: a text "A<newline>B C" whose words A, B and C each fit within width
\* while "B C" does not is wrapped into exactly the three lines A, B, C
\* (lines compared without the space left at their end).
C6_ThreeLines ==
    textPc = "done" =>
        \A a, b \in 1..Len(txt) :
            LET A == SubSeq(txt, 1, a - 1)
                B == SubSeq(txt, a + 1, b - 1)
                C == SubSeq(txt, b + 1, Len(txt))
            IN (/\ a < b /\ txt[a] = "\n" /\ txt[b] = " "
                /\ IsWord(A) /\ IsWord(B) /\ IsWord(C)
                /\ text_width(A, wrapScale) <= wrapWidth
                /\ text_width(B, wrapScale) <= wrapWidth
                /\ text_width(C, wrapScale) <= wrapWidth
                /\ text_width(SubSeq(txt, a + 1, Len(txt)), wrapScale) > wrapWidth)
               => TrimmedLines = <<A, B, C>>

\* the number of words in the lines before line l
RECURSIVE WordsBefore(_, _)
WordsBefore(lw, l) == IF l <= 1 THEN 0 ELSE Len(lw[l - 1]) + WordsBefore(lw, l - 1)

\* the break that ended the a-th word of line l: words are pushed in the
\* order of the breaks, one per break
RuleOf(l, a) == ChainedBreaks(txt)[WordsBefore(lineWords, l) + a][2]

NoNewlines(text) == SelectSeq(text, LAMBDA c : c # "\n")

\* C35: wrapping loses and duplicates no text: the lines create_lines
\* returns, concatenated in their order, are the input text with its
\* newline characters removed.
C35_TextPreserved ==
    textPc = "done" => Concat(LinesOf(lineWords)) = NoNewlines(txt)

\* a text with a line feed in it, wrapped into three lines or more, whose
\* last word did not fit behind the words before it
C35_Witness ==
    /\ textPc = "done"
    /\ \E i \in 1..Len(txt) : txt[i] = "\n"
    /\ Len(lineWords) >= 3
    /\ txt[Len(txt)] \in {"i", "w"}
    /\ LET last == lineWords[Len(lineWords)] IN
          Len(RealWords(last)) = 1 /\ txt[Len(txt) - Len(Concat(last))] = " "

\* the first word of text: the characters before its first break
FirstWord(text) == StripNewlines(SubSeq(text, 1, ChainedBreaks(text)[1][1]))

\* C36: create_lines emits no spurious empty line: a text without a line
\* feed that is not wider than width gives the one line that is the text,
\* and a first word wider than width is the first line.
C36_NoEmptyLine ==
    textPc = "done" =>
        LET lines == LinesOf(lineWords) IN
        /\ (NoNewlines(txt) = txt /\ text_width(txt, wrapScale) <= wrapWidth)
              => lines = <<txt>>
        /\ text_width(FirstWord(txt), wrapScale) > wrapWidth
              => (lines # <<>> /\ lines[1] = FirstWord(txt))

\* ------------------------------------------------------------------------
\* ui/text.rs: TextRenderer::get_glyph and the glyph cache
\* ------------------------------------------------------------------------
\* number of get_glyph calls in SpecGlyph
MaxLookups == 4

\* TextRenderer::new line 66: LruCache::new(NonZeroUsize::new(2))
GlyphCapacity == 2

\* the code points looked up
GlyphChars == {"a", "b", "c"}

\* the glyph that lines 80-107 build for code point c
GlyphOf(c) == [of |-> c]

\* the cache is a sequence of (code point, glyph) entries, most recently used
\* first. LruCache::contains(&c): no change of the order
CacheContains(q, c) == \E i \in 1..Len(q) : q[i].key = c

\* q without the entry of c
Without(q, c) == SelectSeq(q, LAMBDA e : e.key # c)

\* LruCache::put(c, g): the entry becomes the most recently used; when c is
\* new and the cache is full, the least recently used entry is removed
CachePut(q, c, g) ==
    LET rest == Without(q, c)
        kept == IF Len(rest) >= GlyphCapacity
                THEN SubSeq(rest, 1, GlyphCapacity - 1) ELSE rest
    IN <<[key |-> c, val |-> g]>> \o kept

\* LruCache::get(&c): the entry of c, if any, becomes the most recently used
Peek(q, c) == q
Promote(q, c) ==
    IF CacheContains(q, c)
    THEN SelectSeq(q, LAMBDA e : e.key = c) \o Without(q, c)
    ELSE q

\* the value LruCache::get(&c) returns: Some(glyph) or None
CacheGet(q, c) ==
    IF CacheContains(q, c)
    THEN <<SelectSeq(q, LAMBDA e : e.key = c)[1].val>>
    ELSE <<>>

\* TextRenderer::get_glyph(c), lines 76-111; ret is what cache.get(&c) gave
\* (<<>>: None, on which the unwrap panics), out the key put() removed
GetGlyph(c) ==
    /\ Len(glyph.hist) < MaxLookups
    /\ LET q1 == IF ~CacheContains(glyph.lru, c)
                 THEN CachePut(glyph.lru, c, GlyphOf(c)) ELSE glyph.lru
           gone == {glyph.lru[i].key : i \in 1..Len(glyph.lru)}
                       \ {q1[i].key : i \in 1..Len(q1)}
       IN glyph' = [lru |-> Promote(q1, c),
                    hist |-> Append(glyph.hist, c),
                    ret |-> CacheGet(q1, c),
                    out |-> IF gone = {} THEN <<>> ELSE <<CHOOSE k \in gone : TRUE>>]
    /\ UNCHANGED <<retrieverVars, callerVars, textVars, poolVars, uiVars, cacheVars, c2d, tex>>

\* TextRenderer::new, with the components that SpecGlyph does not run
InitGlyph ==
    /\ RetrieverInit
    /\ CallerInit
    /\ RetrieverOnly

NextGlyph == \E c \in GlyphChars : GetGlyph(c)

SpecGlyph == InitGlyph /\ [][NextGlyph]_vars

\* the distinct elements of h, the one used last first
RECURSIVE Recent(_, _)
Recent(h, seen) ==
    IF h = <<>> THEN <<>>
    ELSE LET c == h[Len(h)]
             rest == SubSeq(h, 1, Len(h) - 1)
         IN IF c \in seen THEN Recent(rest, seen)
            ELSE <<c>> \o Recent(rest, seen \cup {c})

Threads == {1, 2}

\* UiMsg::LoadImage(id, f): h names the handle whose constructor f is
LoadImage(id, h) == [kind |-> "LoadImage", id |-> id, h |-> h]
\* UiMsg::UnloadImage(id), sent by the drop of handle h
UnloadImage(id, h) == [kind |-> "UnloadImage", id |-> id, h |-> h]

\* alloc_box lines 224-231: the first i in 0.. that used_ids does not contain
LowestAbove(used) == CHOOSE i \in 0..MaxImgs : i \notin used /\ \A j \in used : j < i
FirstFree(used) ==
    CHOOSE i \in 0..Cardinality(used) :
        i \notin used /\ \A j \in 0..(i - 1) : j \in used

\* alloc_box line 227: used_ids.insert(i)
InsertNothing(used, i) == used
InsertId(used, i) == used \cup {i}

\* LogicImgPool::alloc_box, all of it under the used_ids lock: reserves the
\* id, sends LoadImage and returns the handle (h, id)
PoolAlloc(h) ==
    LET id == FirstFree(used_ids) IN
    /\ used_ids' = InsertId(used_ids, id)
    /\ mailbox' = Append(mailbox, LoadImage(id, h))
    /\ imgs' = imgs \cup {[h |-> h, id |-> id]}

\* LogicImgPool::new: no id in use; the mailbox is empty
PoolInit ==
    /\ used_ids = {}
    /\ mailbox = <<>>
    /\ imgs = {}
    /\ nextImg = 0
    /\ dropping = [t \in Threads |-> <<>>]

\* a thread calls pool.alloc(f)
Alloc(t) ==
    /\ dropping[t] = <<>>
    /\ nextImg < MaxImgs
    /\ nextImg' = nextImg + 1
    /\ PoolAlloc(nextImg + 1)
    /\ UNCHANGED <<dropping, notPool>>

\* drop of an OpaqueImg, dealloc line 247: used_ids.lock().unwrap().remove(id);
\* the lock is released at the end of the statement
DropImg(t, img) ==
    /\ dropping[t] = <<>>
    /\ img \in imgs
    /\ imgs' = imgs \ {img}
    /\ used_ids' = used_ids \ {img.id}
    /\ dropping' = [dropping EXCEPT ![t] = <<img>>]
    /\ UNCHANGED <<mailbox, nextImg, notPool>>

\* dealloc line 249: _ = self.sender.send(UiMsg::UnloadImage(id))
DeallocSend(t) ==
    /\ dropping[t] # <<>>
    /\ mailbox' = Append(mailbox, UnloadImage(dropping[t][1].id, dropping[t][1].h))
    /\ dropping' = [dropping EXCEPT ![t] = <<>>]
    /\ UNCHANGED <<used_ids, imgs, nextImg, notPool>>

InitPool ==
    /\ PoolInit
    /\ UiIdle
    /\ CacheIdle
    /\ CitroIdle
    /\ GlyphIdle
    /\ TexIdle
    /\ RetrieverInit
    /\ CallerInit
    /\ txt = <<>> /\ wrapWidth = 0 /\ wrapScale = 1 /\ lineWords = <<>>
    /\ textPc = "done"

NextPool ==
    \/ \E t \in Threads : Alloc(t)
    \/ \E t \in Threads : \E img \in imgs : DropImg(t, img)
    \/ \E t \in Threads : DeallocSend(t)

SpecPool == InitPool /\ [][NextPool]_vars

\* C4: no two live handles carry the same id, and the id of a live handle is
\* marked used, so alloc cannot issue it again before the handle is dropped.
C4_UniqueIds ==
    /\ \A a, b \in imgs : a.id = b.id => a = b
    /\ \A a \in imgs : a.id \in used_ids

\* an id was freed by a drop and issued again while another handle is live
C4_Witness ==
    /\ \E a, b \in imgs : a.id = 0 /\ a.h = 3 /\ b.id = 1
    /\ \E i \in 1..Len(mailbox) : mailbox[i] = UnloadImage(0, 1)
    /\ \E t \in Threads : dropping[t] # <<>>

\* the ids of the handles that are live
LiveIds == {img.id : img \in imgs}

\* C13: the handle that an alloc returns carries the smallest natural number
\* that is not the id of a handle live at that moment.
C13_FirstFit ==
    [][\A img \in imgs' \ imgs :
          /\ img.id \notin LiveIds
          /\ \A j \in 0..(img.id - 1) : j \in LiveIds]_vars

\* id 0 was freed by the drop of the first handle and given out again while
\* id 1 was still held
C13_Witness ==
    \E a, b \in imgs : a.id = 0 /\ a.h = 3 /\ b.id = 1 /\ b.h = 2

\* ------------------------------------------------------------------------
\* ui/mod.rs: the UiMsg mailbox and Ui::iteration
\* ------------------------------------------------------------------------
\* SpecUi has one logic thread (spec section 5)
Logic == {1}

\* the screens the logic threads hand over
Screens == {1, 2}

\* the texts sent for wrapping, with the width and the scale of the request
WrapTexts == {<<"i", " ", "w">>}
WrapRequestWidth == 2
WrapRequestScale == 1

SetScreenMsg(sc) == [kind |-> "SetScreen", id |-> sc, h |-> 0]
FlushMsg == [kind |-> "Flush", id |-> 0, h |-> 0]
QuitMsg == [kind |-> "Quit", id |-> 0, h |-> 0]
\* UiMsg::Keyboard { .., tx }: id names the thread that holds the receiver
KeyboardMsg(t) == [kind |-> "Keyboard", id |-> t, h |-> 0]
\* UiMsg::WordWrap { text, width, scale, tx }
WordWrapMsg(t, text) == [kind |-> "WordWrap", id |-> t, h |-> 0, text |-> text]

\* Ui::new: empty pool, EmptyScreen
UiInit ==
    /\ uiPool = {}
    /\ screen = 0
    /\ iter = [pc |-> "top", frame |-> 1, go |-> TRUE, drawn |-> 0, shown |-> 0]
    /\ sent = <<>>
    /\ applied = <<>>
    /\ waiting = [t \in Threads |-> ""]
    /\ replies = [t \in Threads |-> <<>>]

\* a logic thread that is neither blocked on a reply nor inside a drop
Ready(t) == waiting[t] = "" /\ dropping[t] = <<>> /\ Len(sent) < MaxMsgs

\* the messages that this step appended to the mailbox are recorded
Record == sent' = sent \o SubSeq(mailbox', Len(mailbox) + 1, Len(mailbox'))

\* sender.send(msg)
Send(msg) == mailbox' = Append(mailbox, msg)

\* pool.alloc(f) on a logic thread
UiAlloc(t) ==
    /\ Ready(t)
    /\ nextImg' = nextImg + 1
    /\ PoolAlloc(nextImg + 1)
    /\ Record
    /\ UNCHANGED <<dropping, uiPool, screen, iter, applied, waiting, replies, notUi>>

\* drop of an OpaqueImg on a logic thread: the id is freed
UiDropImg(t, img) ==
    /\ Ready(t)
    /\ img \in imgs
    /\ imgs' = imgs \ {img}
    /\ used_ids' = used_ids \ {img.id}
    /\ dropping' = [dropping EXCEPT ![t] = <<img>>]
    /\ UNCHANGED <<mailbox, nextImg, uiVars, notUi>>

\* ... and UnloadImage is sent
UiDeallocSend(t) ==
    /\ dropping[t] # <<>>
    /\ Send(UnloadImage(dropping[t][1].id, dropping[t][1].h))
    /\ Record
    /\ dropping' = [dropping EXCEPT ![t] = <<>>]
    /\ UNCHANGED <<used_ids, imgs, nextImg, uiPool, screen, iter, applied,
                   waiting, replies, notUi>>

\* tx.send(UiMsg::SetScreen(..)), tx.send(UiMsg::Flush), tx.send(UiMsg::Quit)
SendPlain(t, msg) ==
    /\ Ready(t)
    /\ Send(msg)
    /\ Record
    /\ UNCHANGED <<used_ids, imgs, nextImg, dropping, uiPool, screen, iter,
                   applied, waiting, replies, notUi>>

SendSetScreen(t) == \E sc \in Screens : SendPlain(t, SetScreenMsg(sc))
SendFlush(t) == SendPlain(t, FlushMsg)
SendQuit(t) == SendPlain(t, QuitMsg)

\* a request with a reply channel: the thread sends it and blocks in recv
SendBlocking(t, msg) ==
    /\ Ready(t)
    /\ Send(msg)
    /\ Record
    /\ waiting' = [waiting EXCEPT ![t] = msg.kind]
    /\ UNCHANGED <<used_ids, imgs, nextImg, dropping, uiPool, screen, iter,
                   applied, replies, notUi>>

\* ui::get_input: sends UiMsg::Keyboard and waits for the reply
SendKeyboard(t) == SendBlocking(t, KeyboardMsg(t))

\* TimelineScreen::new: sends UiMsg::WordWrap and waits for the lines
SendWordWrap(t) == \E text \in WrapTexts : SendBlocking(t, WordWrapMsg(t, text))

\* rx.recv() returns the reply
RecvReply(t) ==
    /\ waiting[t] # ""
    /\ replies[t] # <<>>
    /\ replies' = [replies EXCEPT ![t] = Tail(@)]
    /\ waiting' = [waiting EXCEPT ![t] = ""]
    /\ UNCHANGED <<poolVars, uiPool, screen, iter, sent, applied, notUi>>

\* Ui::iteration lines 64-66: if !self.apt.main_loop() { return false; }
MainLoopIgnored(go) == "drain"
MainLoopResult(go) == IF go THEN "drain" ELSE "stopped"

\* Ui::iteration lines 64-66: apt.main_loop() says whether to go on; iter.go
\* keeps its answer
IterStart ==
    /\ iter.pc = "top"
    /\ iter.frame <= MaxFrames
    /\ \E go \in BOOLEAN :
          iter' = [iter EXCEPT !.pc = MainLoopResult(go), !.go = go]
    /\ UNCHANGED <<poolVars, uiPool, screen, sent, applied, waiting, replies, notUi>>

\* Ui.pool.insert(id, img) / Ui.pool.remove(&id)
PoolInsert(pool, id, h) == {b \in pool : b.id # id} \cup {[id |-> id, h |-> h]}
PoolKeep(pool, id) == pool
PoolRemove(pool, id) == {b \in pool : b.id # id}

\* Ui::iteration lines 70-77: func(self.c2d) is Ok(img) and the image is
\* inserted, or it is Err(e), which is printed
LoadResult(pool, msg, ok) == IF ok THEN PoolInsert(pool, msg.id, msg.h) ELSE pool

\* Ui::draw_opaque_img: the resources drawn for handle img, those that
\* self.pool.get(&img.id) finds
draw_opaque_img(pool, img) == {b \in pool : b.id = img.id}

\* the render-thread pool after Ui::iteration has executed the messages of
\* q in their order on pool, every constructor succeeding (lines 70-81)
RECURSIVE PoolAfter(_, _)
PoolAfter(pool, q) ==
    IF q = <<>> THEN pool
    ELSE LET msg == Head(q) IN
         PoolAfter(IF msg.kind = "LoadImage" THEN LoadResult(pool, msg, TRUE)
                   ELSE IF msg.kind = "UnloadImage" THEN PoolRemove(pool, msg.id)
                   ELSE pool,
                   Tail(q))

\* C31: once the messages sent so far have been applied, the render-thread
\* pool holds under the id of every live handle the resource built by the
\* constructor of that handle, however a drop on one thread interleaves with
\* an alloc on another thread that reuses the freed id.
C31_LiveHandleHasResource ==
    \A img \in imgs : [id |-> img.id, h |-> img.h] \in PoolAfter({}, mailbox)

\* Ui::iteration lines 95-96 and 107: tx.send(value).unwrap() on the reply
\* channel of thread t
DropReply(rep, t, value) == rep
ReplyTo(rep, t, value) == [rep EXCEPT ![t] = Append(@, value)]

\* Ui::iteration lines 83-85: self.screen = screen; the Box that self.screen
\* held is dropped by the assignment
KeepScreen(cur, new) == cur
AssignScreen(cur, new) == new

\* the position of the render thread after it has handled msg (lines 68-111)
AfterAll(msg) == "drain"
AfterMsg(msg) ==
    IF msg.kind = "Flush" THEN "update"
    ELSE IF msg.kind = "Quit" THEN "stopped"
    ELSE "drain"

\* self.receiver.try_recv(): the message received from a non-empty mailbox
TryRecv(q) == Head(q)
Rest(q) == Tail(q)

\* the history variable applied notes every message executed, or nothing
Logged(log, x) == Append(log, x)
Unlogged(log, x) == log

\* Ui::iteration lines 68-111: one turn of the drain loop, for a message
DrainPopAs(Log(_, _)) ==
    /\ iter.pc = "drain"
    /\ mailbox # <<>>
    /\ LET msg == TryRecv(mailbox) IN
       /\ mailbox' = Rest(mailbox)
       /\ iter' = [iter EXCEPT !.pc = AfterMsg(msg)]
       /\ \E ok \in (IF msg.kind = "LoadImage" THEN BOOLEAN ELSE {TRUE}) :
            /\ applied' = Log(applied, [msg |-> msg, frame |-> iter.frame,
                                        left |-> Len(mailbox) - 1, ok |-> ok,
                                        shown |-> iter.shown])
            /\ uiPool' = IF msg.kind = "LoadImage"
                         THEN LoadResult(uiPool, msg, ok)
                         ELSE IF msg.kind = "UnloadImage"
                         THEN PoolRemove(uiPool, msg.id)
                         ELSE uiPool
       /\ screen' = IF msg.kind = "SetScreen" THEN AssignScreen(screen, msg.id)
                    ELSE screen
       /\ replies' =
            IF msg.kind = "Keyboard"
            THEN ReplyTo(replies, msg.id, <<>>)
            ELSE IF msg.kind = "WordWrap"
            THEN ReplyTo(replies, msg.id,
                         LinesOf(CreateLineWords(msg.text, WrapRequestWidth,
                                                 WrapRequestScale)))
            ELSE replies
    /\ UNCHANGED <<used_ids, imgs, nextImg, dropping, sent, waiting, notUi>>

DrainPop == DrainPopAs(Logged)

\* the drain loop ends: try_recv() finds the mailbox empty
DrainEmpty ==
    /\ iter.pc = "drain"
    /\ mailbox = <<>>
    /\ iter' = [iter EXCEPT !.pc = "update"]
    /\ UNCHANGED <<poolVars, uiPool, screen, sent, applied, waiting, replies, notUi>>

\* Ui::iteration lines 113-125: update, draw, wait for vblank, return true;
\* iter.drawn counts the frames in which the screen was updated and drawn,
\* iter.shown is the screen whose update and draw the last of them called
UpdateDraw ==
    /\ iter.pc = "update"
    /\ iter' = [pc |-> "top", frame |-> iter.frame + 1, go |-> iter.go,
                drawn |-> iter.drawn + 1, shown |-> screen]
    /\ UNCHANGED <<poolVars, uiPool, screen, sent, applied, waiting, replies, notUi>>

InitUi ==
    /\ PoolInit
    /\ UiInit
    /\ CacheIdle
    /\ CitroIdle
    /\ GlyphIdle
    /\ TexIdle
    /\ RetrieverInit
    /\ CallerInit
    /\ txt = <<>> /\ wrapWidth = 0 /\ wrapScale = 1 /\ lineWords = <<>>
    /\ textPc = "done"

NextUi ==
    \/ \E t \in Logic : UiAlloc(t)
    \/ \E t \in Logic : \E img \in imgs : UiDropImg(t, img)
    \/ \E t \in Logic : UiDeallocSend(t)
    \/ \E t \in Logic : SendSetScreen(t)
    \/ \E t \in Logic : SendFlush(t)
    \/ \E t \in Logic : SendQuit(t)
    \/ \E t \in Logic : SendKeyboard(t)
    \/ \E t \in Logic : SendWordWrap(t)
    \/ \E t \in Logic : RecvReply(t)
    \/ IterStart
    \/ DrainPop
    \/ DrainEmpty
    \/ UpdateDraw

SpecUi == InitUi /\ [][NextUi]_vars

AppliedMsgs == [i \in 1..Len(applied) |-> applied[i].msg]

\* C10: the messages the render thread has applied, followed by those still
\* queued, are the messages sent, in the order sent; nothing is applied in
\* the frame of a Flush after that Flush: what was queued behind it is
\* applied in later frames, in order.
C10_Fifo ==
    /\ AppliedMsgs \o mailbox = sent
    /\ \A i, j \in 1..Len(applied) :
          i < j => /\ applied[i].frame <= applied[j].frame
                   /\ (applied[i].msg.kind = "Flush"
                          => applied[i].frame < applied[j].frame)

\* a Flush was popped with two messages queued behind it, and both were
\* applied by the drain of the next frame
C10_Witness ==
    \E i \in 1..Len(applied) :
        /\ applied[i].msg.kind = "Flush"
        /\ applied[i].left = 2
        /\ Len(applied) = i + 2
        /\ applied[i + 1].frame = applied[i].frame + 1
        /\ applied[i + 2].frame = applied[i].frame + 1
        /\ applied[i + 1].msg.kind = "SetScreen"
        /\ applied[i + 2].msg.kind = "LoadImage"

\* the drain of the current iteration has popped a Quit
QuitPopped ==
    /\ applied # <<>>
    /\ applied[Len(applied)].msg.kind = "Quit"
    /\ applied[Len(applied)].frame = iter.frame

\* C11: Ui::iteration has returned false exactly when main_loop reported stop
\* or the drain of this iteration popped a Quit; every iteration that
\* returned true updated and drew the screen, the one that returned false
\* did not; nothing is applied after a Quit, and nothing at all in an
\* iteration that main_loop stopped.
C11_ReturnValue ==
    /\ iter.pc = "stopped" <=> (~iter.go \/ QuitPopped)
    /\ iter.drawn = iter.frame - 1
    /\ \A i \in 1..Len(applied) :
          applied[i].msg.kind = "Quit" => i = Len(applied)
    /\ ~iter.go => \A i \in 1..Len(applied) : applied[i].frame < iter.frame

\* iteration returned false on a Quit with a message still queued behind it,
\* after an earlier iteration had returned true
C11_Witness ==
    /\ iter.pc = "stopped"
    /\ iter.go
    /\ QuitPopped
    /\ applied[Len(applied)].left >= 1
    /\ mailbox # <<>>
    /\ iter.drawn >= 1

\* the positions in `applied` of the SetScreen messages applied in the
\* frames up to f
SetScreensUpTo(f) ==
    {i \in 1..Len(applied) : applied[i].msg.kind = "SetScreen" /\ applied[i].frame <= f}

\* the screen named by the last SetScreen applied in the frames up to f,
\* EmptyScreen (0) when there is none
ScreenAfter(f) ==
    IF SetScreensUpTo(f) = {} THEN 0
    ELSE applied[CHOOSE i \in SetScreensUpTo(f) :
                    \A j \in SetScreensUpTo(f) : j <= i].msg.id

\* C21: Ui.screen is EmptyScreen until a SetScreen is applied and after that
\* the screen of the SetScreen applied last; the update and draw of a frame
\* are called on the screen of the last SetScreen applied up to and including
\* the drain of that frame.
C21_ActiveScreen ==
    /\ screen = ScreenAfter(iter.frame)
    /\ iter.shown = (IF iter.drawn = 0 THEN 0 ELSE ScreenAfter(iter.frame - 1))

\* screen 1 was set and drawn in the first frame, screen 2 replaced it in the
\* drain of the second frame and was drawn by that frame
C21_Witness ==
    /\ iter.drawn = 2
    /\ iter.shown = 2
    /\ \E i, j \in 1..Len(applied) :
          /\ applied[i].msg = SetScreenMsg(1) /\ applied[i].frame = 1
          /\ applied[j].msg = SetScreenMsg(2) /\ applied[j].frame = 2

\* C22: when SetScreen(S), then Flush, then a Keyboard request are sent with
\* no other SetScreen between them, the Keyboard request is popped in a
\* later frame than the SetScreen, and the last frame completed before the
\* prompt opens has updated and drawn S.
C22_ShownBeforePrompt ==
    \A i, j, k \in 1..Len(applied) :
        (/\ i < j /\ j < k
         /\ applied[i].msg.kind = "SetScreen"
         /\ applied[j].msg.kind = "Flush"
         /\ applied[k].msg.kind = "Keyboard"
         /\ \A n \in (i + 1)..(k - 1) : applied[n].msg.kind # "SetScreen")
            => /\ applied[i].frame < applied[k].frame
               /\ applied[k].shown = applied[i].msg.id

\* SetScreen(2), Flush and Keyboard were all queued before the drain of the
\* first frame; the prompt has been answered in the second frame
C22_Witness ==
    /\ Len(applied) = 3
    /\ applied[1].msg = SetScreenMsg(2) /\ applied[1].left = 2
    /\ applied[2].msg.kind = "Flush"
    /\ applied[3].msg.kind = "Keyboard" /\ applied[3].frame = 2
    /\ replies[1] # <<>>

\* SpecLoad: two threads allocate and drop images while the render thread
\* applies their LoadImage and UnloadImage messages
InitLoad == InitUi

NextLoad ==
    \/ \E t \in Threads : UiAlloc(t)
    \/ \E t \in Threads : \E img \in imgs : UiDropImg(t, img)
    \/ \E t \in Threads : UiDeallocSend(t)
    \/ IterStart
    \/ DrainPop
    \/ DrainEmpty
    \/ UpdateDraw

SpecLoad == InitLoad /\ [][NextLoad]_vars

\* the message applied last is a LoadImage whose constructor failed
FailedLoad ==
    /\ applied # <<>>
    /\ applied[Len(applied)].msg.kind = "LoadImage"
    /\ ~applied[Len(applied)].ok

\* C12: right after a LoadImage(id, f) whose constructor failed has been
\* applied, Ui.pool binds nothing to id and drawing with the handle of that
\* message draws nothing.
C12_FailedLoadUnbound ==
    FailedLoad =>
        LET msg == applied[Len(applied)].msg IN
        /\ \A b \in uiPool : b.id # msg.id
        /\ draw_opaque_img(uiPool, [h |-> msg.h, id |-> msg.id]) = {}

\* the positions in q of the messages of the given kind that belong to
\* handle h
MsgsOf(q, kind, h) == {i \in 1..Len(q) : q[i].kind = kind /\ q[i].h = h}

\* handle h has been dropped and its dealloc has finished
Dropped(h) ==
    /\ h \in 1..nextImg
    /\ \A img \in imgs : img.h # h
    /\ \A t \in Threads : dropping[t] = <<>> \/ dropping[t][1].h # h

\* C23: the ids marked used are those of the live handles (a drop frees the
\* id); every handle has one LoadImage, sent before its UnloadImage; a
\* handle has one UnloadImage once its drop has finished and none before;
\* and once the UnloadImage of a handle has been applied, its LoadImage has
\* been applied too and Ui.pool holds no resource built by its constructor.
C23_NoResourceOutlives ==
    /\ used_ids = LiveIds
    /\ \A h \in 1..nextImg :
          /\ Cardinality(MsgsOf(sent, "LoadImage", h)) = 1
          /\ Cardinality(MsgsOf(sent, "UnloadImage", h)) = (IF Dropped(h) THEN 1 ELSE 0)
          /\ \A i \in MsgsOf(sent, "LoadImage", h) :
                \A j \in MsgsOf(sent, "UnloadImage", h) : i < j
          /\ MsgsOf(AppliedMsgs, "UnloadImage", h) # {}
                => /\ MsgsOf(AppliedMsgs, "LoadImage", h) # {}
                   /\ \A b \in uiPool : b.h # h

\* the resource of handle 1 was built and bound to id 0, then another
\* thread's handle 2 took the recycled id 0, and the UnloadImage of handle 1
\* has been applied
C23_Witness ==
    /\ \E i \in 1..Len(applied) :
          applied[i].msg = LoadImage(0, 1) /\ applied[i].ok
    /\ \E i \in 1..Len(applied) : applied[i].msg = LoadImage(0, 2)
    /\ MsgsOf(AppliedMsgs, "UnloadImage", 1) # {}
    /\ [h |-> 2, id |-> 0] \in imgs

\* SpecUiLive: the logic thread sends Flush, Quit and requests;
\* the render loop keeps iterating (main_loop() stays true); frames are not
\* counted
IterGo ==
    /\ iter.pc = "top"
    /\ iter' = [iter EXCEPT !.pc = MainLoopResult(TRUE), !.go = TRUE]
    /\ UNCHANGED <<poolVars, uiPool, screen, sent, applied, waiting, replies, notUi>>

\* Ui::iteration lines 113-125, without the count of frames
Redraw ==
    /\ iter.pc = "update"
    /\ iter' = [iter EXCEPT !.pc = "top", !.shown = screen]
    /\ UNCHANGED <<poolVars, uiPool, screen, sent, applied, waiting, replies, notUi>>

\* a step of the render thread
RenderStep == IterGo \/ DrainPop \/ DrainEmpty \/ Redraw

NextUiLive ==
    \/ \E t \in Logic : SendFlush(t)
    \/ \E t \in Logic : SendQuit(t)
    \/ \E t \in Logic : SendKeyboard(t)
    \/ \E t \in Logic : SendWordWrap(t)
    \/ \E t \in Logic : RecvReply(t)
    \/ IterGo
    \/ DrainPop
    \/ DrainEmpty
    \/ Redraw

\* the render thread runs whenever it can, and a thread blocked in recv()
\* on a reply channel that holds a reply wakes up
SpecUiLive ==
    /\ InitUi
    /\ [][NextUiLive]_vars
    /\ WF_vars(RenderStep)
    /\ \A t \in Logic : WF_vars(RecvReply(t))

\* the requests of thread t, among the messages msgs
RequestsOf(msgs, t) ==
    SelectSeq(msgs, LAMBDA m : m.kind \in {"Keyboard", "WordWrap"} /\ m.id = t)

\* the request thread t waits on was cut off by a Quit popped before it
RequestLost(t) ==
    /\ waiting[t] # ""
    /\ iter.pc = "stopped"
    /\ RequestsOf(mailbox, t) # <<>>

\* the reply channel of thread t holds one reply exactly when t waits on a
\* request that a drain has popped, and none otherwise
OneReply(t) ==
    Len(replies[t]) =
        IF waiting[t] # "" /\ RequestsOf(mailbox, t) = <<>> THEN 1 ELSE 0

\* C20: every Keyboard and WordWrap request gets exactly one reply, sent by
\* the drain that pops it, and a thread blocked on the reply is released
\* unless a Quit ahead of its request stopped the render loop.
C20_Replied ==
    /\ [](\A t \in Logic : OneReply(t))
    /\ \A t \in Logic :
          (waiting[t] # "") ~> (waiting[t] = "" \/ RequestLost(t))

\* a thread that sent a WordWrap request behind a Flush has received the lines
C20_Witness ==
    \E i, j \in 1..Len(applied) :
        /\ i < j
        /\ applied[i].msg.kind = "Flush"
        /\ applied[j].msg.kind = "WordWrap"
        /\ waiting[applied[j].msg.id] = ""
        /\ replies[applied[j].msg.id] = <<>>

\* ------------------------------------------------------------------------
\* ui/citro2d.rs: Citro2d, CITRO_COUNT, FRAME_LOCK and Frame
\* ------------------------------------------------------------------------
\* number of Citro2d::new calls in SpecCitro
MaxNew == 2
\* number of begin_frame calls in SpecCitro
MaxBegin == 3

\* the threads that use citro2d
CitroThreads == {1, 2}

\* the components that the citro2d specifications do not run
CitroOnly ==
    /\ RetrieverInit
    /\ CallerInit
    /\ txt = <<>> /\ wrapWidth = 0 /\ wrapScale = 1 /\ lineWords = <<>>
    /\ textPc = "done"
    /\ used_ids = {} /\ mailbox = <<>> /\ imgs = {} /\ nextImg = 0
    /\ dropping = [t \in Callers |-> <<>>]
    /\ UiIdle
    /\ CacheIdle

notCitro == <<retrieverVars, callerVars, textVars, poolVars, uiVars, cacheVars, glyph, tex>>

\* Citro2d::new line 49: CITRO_COUNT.fetch_add(1, SeqCst), whose result
\* decides whether this call initialises the library
NewCount(t) ==
    /\ c2d.pc[t] = "idle"
    /\ c2d.made < MaxNew
    /\ c2d' = [c2d EXCEPT !.count = @ + 1,
                          !.made = @ + 1,
                          !.pc[t] = IF c2d.count = 0 THEN "init" ELSE "wrap"]
    /\ UNCHANGED notCitro

\* Citro2d::new lines 51-60: C3D_Init and C2D_Init succeed, or one of them
\* fails and new returns Err(C2dMemError) with the library not initialised
NewInit(t) ==
    /\ c2d.pc[t] = "init"
    /\ \E ok \in BOOLEAN :
          c2d' = IF ok THEN [c2d EXCEPT !.lib = "on", !.pc[t] = "wrap"]
                 ELSE [c2d EXCEPT !.pc[t] = "idle"]
    /\ UNCHANGED notCitro

\* Citro2d::new line 62: Ok(Self(gfx)); the instance is numbered by the
\* thread that made it and the count of instances made
NewReturn(t) ==
    /\ c2d.pc[t] = "wrap"
    /\ c2d' = [c2d EXCEPT !.live = @ \cup {<<t, c2d.made>>}, !.pc[t] = "idle"]
    /\ UNCHANGED notCitro

\* the Frames that borrow instance i
FramesOf(i) == {f \in c2d.frames : f.of = i}

\* Drop for Citro2d lines 83-91: fetch_sub(1) == 1 finalises the library; an
\* instance cannot be dropped while a Frame borrows it
DropCitro(t, i) ==
    /\ c2d.pc[t] = "idle"
    /\ i \in c2d.live
    /\ FramesOf(i) = {}
    /\ c2d' = [c2d EXCEPT !.live = @ \ {i},
                          !.count = @ - 1,
                          !.lib = IF c2d.count = 1 THEN "off" ELSE @]
    /\ UNCHANGED notCitro

\* begin_frame line 66: FRAME_LOCK.lock() returns when no guard is alive
LockAny(holder) == TRUE
LockFree(holder) == holder = 0

\* Citro2d::begin_frame lines 66-74: the lock is taken, C3D_FrameBegin is
\* called and the Frame, which holds the guard, is returned
FrameBegun(t, i) ==
    /\ c2d.pc[t] = "idle"
    /\ i \in c2d.live
    /\ c2d.begun < MaxBegin
    /\ \A f \in c2d.frames : f.t # t
    /\ LockFree(c2d.lock)
    /\ c2d' = [c2d EXCEPT !.lock = t,
                          !.c3d = @ + 1,
                          !.begun = @ + 1,
                          !.frames = @ \cup {[t |-> t, of |-> i, n |-> c2d.begun + 1]}]

\* a thread calls begin_frame on instance i
BeginFrame(t, i) == FrameBegun(t, i) /\ UNCHANGED notCitro

\* Drop for Frame lines 102-106: C3D_FrameEnd(0) ...
FrameEnded(t) ==
    /\ c2d.pc[t] = "idle"
    /\ \E f \in c2d.frames : f.t = t
    /\ c2d' = [c2d EXCEPT !.c3d = @ - 1, !.pc[t] = "unlock"]

\* ... and then the fields of the Frame are dropped: the guard releases
\* FRAME_LOCK
FrameUnlocked(t) ==
    /\ c2d.pc[t] = "unlock"
    /\ c2d' = [c2d EXCEPT !.lock = 0,
                          !.frames = {f \in @ : f.t # t},
                          !.pc[t] = "idle"]

\* a thread drops its Frame
FrameEnd(t) == FrameEnded(t) /\ UNCHANGED notCitro
FrameUnlock(t) == FrameUnlocked(t) /\ UNCHANGED notCitro

InitCitro ==
    /\ CitroIdle
    /\ GlyphIdle
    /\ TexIdle
    /\ CitroOnly

NextCitro ==
    \/ \E t \in CitroThreads : NewCount(t)
    \/ \E t \in CitroThreads : NewInit(t)
    \/ \E t \in CitroThreads : NewReturn(t)
    \/ \E t \in CitroThreads : \E i \in c2d.live : DropCitro(t, i)
    \/ \E t \in CitroThreads : \E i \in c2d.live : BeginFrame(t, i)
    \/ \E t \in CitroThreads : FrameEnd(t)
    \/ \E t \in CitroThreads : FrameUnlock(t)

SpecCitro == InitCitro /\ [][NextCitro]_vars

\* C27: at most one Frame is alive; while one is alive FRAME_LOCK is held by
\* its thread, and the library has a frame open exactly until the drop of
\* the Frame has called C3D_FrameEnd; when no Frame is alive the lock is free
\* and no library frame is open, so the next begin_frame can proceed.
C27_OneFrame ==
    /\ Cardinality(c2d.frames) <= 1
    /\ \A f \in c2d.frames :
          /\ c2d.lock = f.t
          /\ c2d.c3d = (IF c2d.pc[f.t] = "unlock" THEN 0 ELSE 1)
    /\ c2d.frames = {} => (c2d.lock = 0 /\ c2d.c3d = 0)

\* thread 2 holds the second Frame, begun after thread 1 dropped the first,
\* while thread 1 is idle
C27_Witness ==
    /\ \E f \in c2d.frames : f.t = 2 /\ f.n = 2
    /\ c2d.pc[1] = "idle"
    /\ c2d.lock = 2

\* C28: at most one Citro2d instance is alive.
C28_OneInstance == Cardinality(c2d.live) <= 1

\* C39: while a Citro2d instance exists the library is initialised, and it is
\* finalised when the last instance is dropped; when no Citro2d::new is
\* running, the instance counter equals the number of instances, so that a
\* new after a failed initialisation initialises again.
C39_InitialisedWhileAlive ==
    /\ c2d.live # {} => c2d.lib = "on"
    /\ (\A t \in CitroThreads : c2d.pc[t] = "idle") =>
          /\ c2d.count = Cardinality(c2d.live)
          /\ c2d.live = {} => c2d.lib = "off"

\* ------------------------------------------------------------------------
\* ui/image.rs: WebImageCache, WebImage and CachedImage
\* ------------------------------------------------------------------------
\* the threads that drop CachedImage handles: the logic thread, and the
\* render thread, which drops the screens it is given
CacheThreads == {1, 2}
\* the logic thread calls WebImageCache::get (TimelineScreen::new)
Getters == {1}

\* the image URLs given to get (max_scale does not take part in the caching)
CacheUrls == {MkUrl("cdn.other.example"), MkUrl("example.social")}

\* the inputs of one get call
GetInputs == UNION {[1..n -> CacheUrls] : n \in 0..MaxGetLen}

\* the number of CachedImage handles of WebImage e that have not released
\* their Arc
HandlesOf(e) == handles[e]

\* the WebImage that entries holds for URL u is e
InMap(e) == entries[webImages[e].url] = e

\* Arc::strong_count(&image): the clone in entries and one per CachedImage
StrongCount(e) == (IF InMap(e) THEN 1 ELSE 0) + HandlesOf(e)

\* get line 119: !added_requests.contains(url)
NeverAdded(added, u) == FALSE
AlreadyAdded(added, u) == u \in added

\* get lines 112-127: request_info, the URLs of the input that entries does
\* not contain, each once, in input order
RECURSIVE MissesFrom(_, _, _)
MissesFrom(images, cached, added) ==
    IF images = <<>> THEN <<>>
    ELSE LET u == Head(images) IN
         IF u \notin cached /\ ~AlreadyAdded(added, u)
         THEN <<u>> \o MissesFrom(Tail(images), cached, added \cup {u})
         ELSE MissesFrom(Tail(images), cached, added)

\* get line 129: the request_info element that the k-th response is paired with
InfoAtReversed(info, k) == info[Len(info) + 1 - k]
InfoAt(info, k) == info[k]

\* the k-th request of the batch of thread t: requests.push((url, Method::Get))
CacheRequest(t, k) ==
    [id |-> <<t, cthread[t].call, k>>, url |-> cthread[t].info[k],
     method |-> "Get", tx |-> t]

\* a sender of the batch channel of thread t still exists: in the queue, in
\* the worker, or in the hands of Retriever::request
SendersAlive(t) ==
    \/ cthread[t].pc = "send"
    \/ \E i \in 1..Len(requests) :
          requests[i].tx = t /\ requests[i].id[2] = chans[t].call
    \/ /\ worker.pc = "busy"
       /\ worker.cur[1].tx = t
       /\ worker.cur[1].id[2] = chans[t].call

ThreadIdle == [pc |-> "idle", images |-> <<>>, info |-> <<>>, k |-> 0,
               result |-> <<>>, cached |-> {}, res |-> "", h |-> <<>>, call |-> 0]

\* WebImageCache::new with a fresh Retriever and LogicImgPool
CacheInit ==
    /\ entries = [u \in CacheUrls |-> 0]
    /\ webImages = <<>>
    /\ handles = <<>>
    /\ cacheLock = [holder |-> 0, poisoned |-> FALSE]
    /\ cthread = [t \in CacheThreads |-> ThreadIdle]

\* the last Arc of WebImage e is gone: its OpaqueImg is dropped, dealloc
\* frees the id and sends UnloadImage
Destroy(D) ==
    /\ webImages' = [e \in 1..Len(webImages) |->
                        IF e \in D THEN [webImages[e] EXCEPT !.alive = FALSE]
                        ELSE webImages[e]]
    /\ used_ids' = used_ids \ {webImages[e].img.id : e \in D}
    /\ imgs' = imgs \ {webImages[e].img : e \in D}
    /\ mailbox' = IF D = {} THEN mailbox
                  ELSE LET e == CHOOSE x \in D : TRUE IN
                       Append(mailbox, UnloadImage(webImages[e].img.id, webImages[e].img.h))

\* a panic inside get: the guard of entries is dropped while panicking, which
\* poisons the Mutex; the receiver of the batch is dropped
PanicInGet(t) ==
    /\ cacheLock' = [holder |-> 0, poisoned |-> TRUE]
    /\ cthread' = [cthread EXCEPT ![t].pc = "panicked"]
    /\ chans' = [chans EXCEPT ![t].rx = FALSE]

\* get line 110: self.entries.lock().unwrap(), then lines 112-127 and the
\* channel() of Retriever::request
GetLockAt(at, t, images) ==
    /\ cthread[t].pc = at
    /\ calls < MaxGets
    /\ cacheLock.holder = 0
    /\ calls' = calls + 1
    /\ IF cacheLock.poisoned
       THEN /\ cthread' = [cthread EXCEPT ![t].pc = "panicked"]
            /\ UNCHANGED <<cacheLock, chans>>
       ELSE LET cached == {u \in CacheUrls : entries[u] # 0} IN
            /\ cacheLock' = [cacheLock EXCEPT !.holder = t]
            /\ cthread' = [cthread EXCEPT ![t] =
                  [@ EXCEPT !.pc = "send", !.images = images,
                            !.info = MissesFrom(images, cached, {}), !.k = 0,
                            !.result = <<>>, !.cached = cached, !.res = "",
                            !.h = <<>>, !.call = calls + 1]]
            /\ chans' = [chans EXCEPT ![t] = [q |-> <<>>, rx |-> TRUE, call |-> calls + 1]]
    /\ UNCHANGED <<requests, easy, worker, performed, entries, webImages, handles,
                   poolVars, notCache>>

\* a thread that is not inside a get or a drop calls get(images)
GetLock(t, images) == GetLockAt("idle", t, images)

\* Retriever::request, one iteration: self.requests.send(..).unwrap()
GetSend(t) ==
    /\ cthread[t].pc = "send"
    /\ cthread[t].k < Len(cthread[t].info)
    /\ IF worker.pc = "panicked"
       THEN /\ PanicInGet(t)
            /\ UNCHANGED requests
       ELSE /\ SendRequest(CacheRequest(t, cthread[t].k + 1))
            /\ cthread' = [cthread EXCEPT ![t].k = @ + 1]
            /\ UNCHANGED <<cacheLock, chans>>
    /\ UNCHANGED <<easy, worker, performed, calls, entries, webImages, handles,
                   poolVars, notCache>>

\* Retriever::request returns the receiver
GetSent(t) ==
    /\ cthread[t].pc = "send"
    /\ cthread[t].k = Len(cthread[t].info)
    /\ cthread' = [cthread EXCEPT ![t].pc = "recv", ![t].k = 0]
    /\ UNCHANGED <<requests, chans, easy, worker, performed, calls, entries, webImages,
                   handles, cacheLock, poolVars, notCache>>

\* get lines 129-131: the response is Ok and convert_image succeeds
UsableAlways(resp, decoded) == TRUE
Usable(resp, decoded) == resp.kind = "ok" /\ decoded

\* get has returned res: the record of the call, without what was noted only
\* for the time the call runs
Returned(rec, res) ==
    [f \in DOMAIN ThreadIdle |->
        IF f = "pc" THEN "idle" ELSE IF f = "res" THEN res ELSE rec[f]]

\* get has returned res, and of the call only res is kept
ReturnedBare(rec, res) == [ThreadIdle EXCEPT !.res = res]

\* get returns Err through `?`: the guard and the receiver are dropped; why
\* is the error returned, that of the response or that of convert_image
GetFailAs(R(_, _), t, why) ==
    /\ cacheLock' = [cacheLock EXCEPT !.holder = 0]
    /\ cthread' = [cthread EXCEPT ![t] = R(@, why)]
    /\ chans' = [chans EXCEPT ![t].rx = FALSE, ![t].q = <<>>]

GetFail(t, why) == GetFailAs(Returned, t, why)

\* get lines 128-141, one iteration: responses.recv().unwrap()?, then
\* convert_image(..)? (which allocates the OpaqueImg), then entries.insert
GetRecvAs(R(_, _), t) ==
    /\ cthread[t].pc = "recv"
    /\ cthread[t].k < Len(cthread[t].info)
    /\ IF chans[t].q # <<>>
       THEN LET resp == Head(chans[t].q)
                url  == InfoAt(cthread[t].info, cthread[t].k + 1)
                old  == IF entries[url] # 0 /\ HandlesOf(entries[url]) = 0
                        THEN {entries[url]} ELSE {}
                id   == FirstFree(used_ids)
                img  == [h |-> nextImg + 1, id |-> id]
                e    == Len(webImages) + 1
            IN \E decoded \in BOOLEAN :
                IF Usable(resp, decoded)
                THEN /\ nextImg' = nextImg + 1
                     /\ used_ids' = InsertId(used_ids, id) \ {webImages[x].img.id : x \in old}
                     /\ imgs' = (imgs \cup {img}) \ {webImages[x].img : x \in old}
                     /\ mailbox' =
                           LET loaded == Append(mailbox, LoadImage(id, img.h)) IN
                           IF old = {} THEN loaded
                           ELSE LET x == CHOOSE y \in old : TRUE IN
                                Append(loaded, UnloadImage(webImages[x].img.id, webImages[x].img.h))
                     /\ webImages' =
                           Append([x \in 1..Len(webImages) |->
                                      IF x \in old THEN [webImages[x] EXCEPT !.alive = FALSE]
                                      ELSE webImages[x]],
                                  [url |-> url, img |-> img, body |-> resp, alive |-> TRUE])
                     /\ handles' = Append(handles, 0)
                     /\ entries' = [entries EXCEPT ![url] = e]
                     /\ cthread' = [cthread EXCEPT ![t].k = @ + 1]
                     /\ chans' = [chans EXCEPT ![t].q = Tail(@)]
                     /\ UNCHANGED cacheLock
                ELSE /\ GetFailAs(R, t, IF resp.kind = "ok" THEN "decode_error"
                                          ELSE "response_error")
                     /\ UNCHANGED <<nextImg, used_ids, imgs, mailbox, webImages, entries,
                                    handles>>
       ELSE \* every sender is gone: recv() is Err and unwrap panics
            /\ ~SendersAlive(t)
            /\ PanicInGet(t)
            /\ UNCHANGED <<nextImg, used_ids, imgs, mailbox, webImages, entries, handles>>
    /\ UNCHANGED <<requests, easy, worker, performed, calls, dropping, textVars, uiVars,
                   caller, sets, closing, instance, token, c2d, glyph, tex>>

GetRecv(t) == GetRecvAs(Returned, t)

\* get lines 142-152: one CachedImage per input element from reading entries;
\* Ok(result) drops the receiver and the guard
GetFinishAs(R(_, _), t) ==
    /\ cthread[t].pc = "recv"
    /\ cthread[t].k = Len(cthread[t].info)
    /\ LET images == cthread[t].images
           result == [i \in 1..Len(images) |-> entries[images[i]]]
       IN /\ handles' = [e \in 1..Len(handles) |->
                            handles[e] + Cardinality({i \in 1..Len(images) : result[i] = e})]
          /\ cthread' = [cthread EXCEPT ![t] =
                                R([cthread[t] EXCEPT !.result = result], "ok")]
    /\ cacheLock' = [cacheLock EXCEPT !.holder = 0]
    /\ chans' = [chans EXCEPT ![t].rx = FALSE, ![t].q = <<>>]
    /\ UNCHANGED <<requests, easy, worker, performed, calls, entries, webImages,
                   poolVars, notCache>>

GetFinish(t) == GetFinishAs(Returned, t)

\* the number of handles of WebImage e whose drop is running
BeingDropped(e) == Cardinality({t \in CacheThreads : cthread[t].h = <<e>>})

\* Drop for CachedImage line 82: the read of Arc::strong_count(&self.image)
DropCheck(t, e) ==
    /\ cthread[t].pc = "idle"
    /\ HandlesOf(e) > BeingDropped(e)
    /\ cthread' = [cthread EXCEPT ![t] =
          [ThreadIdle EXCEPT
              !.pc = IF StrongCount(e) = 2 THEN "drop_remove" ELSE "drop_release",
              !.h = <<e>>]]
    /\ UNCHANGED <<retrieverVars, calls, entries, webImages, handles,
                   cacheLock, poolVars, notCache>>

\* Drop for CachedImage line 88: self.cache.remove(&self.image.url), that is
\* entries.lock().unwrap() and entries.remove(url); on a poisoned Mutex the
\* unwrap panics and the fields of the handle are dropped by the unwinding
DropRemove(t) ==
    /\ cthread[t].pc = "drop_remove"
    /\ cacheLock.holder = 0
    /\ LET e   == cthread[t].h[1]
           url == webImages[e].url
       IN IF cacheLock.poisoned
          THEN /\ handles' = [handles EXCEPT ![e] = @ - 1]
               /\ cthread' = [cthread EXCEPT ![t].pc = "panicked", ![t].h = <<>>]
               /\ Destroy(IF ~InMap(e) /\ HandlesOf(e) = 1 THEN {e} ELSE {})
               /\ UNCHANGED entries
          ELSE /\ entries' = [entries EXCEPT ![url] = 0]
               /\ cthread' = [cthread EXCEPT ![t].pc = "drop_release"]
               /\ Destroy(IF entries[url] # 0 /\ HandlesOf(entries[url]) = 0
                          THEN {entries[url]} ELSE {})
               /\ UNCHANGED handles
    /\ UNCHANGED <<retrieverVars, calls, cacheLock, nextImg, dropping,
                   textVars, uiVars, caller, sets, closing, instance, token, c2d,
                   glyph, tex>>

\* the end of the drop of a CachedImage: its Arc<WebImage> is released
DropRelease(t) ==
    /\ cthread[t].pc = "drop_release"
    /\ LET e == cthread[t].h[1] IN
       /\ handles' = [handles EXCEPT ![e] = @ - 1]
       /\ Destroy(IF ~InMap(e) /\ HandlesOf(e) = 1 THEN {e} ELSE {})
    /\ cthread' = [cthread EXCEPT ![t].pc = "idle", ![t].h = <<>>]
    /\ UNCHANGED <<retrieverVars, calls, entries, cacheLock, nextImg,
                   dropping, textVars, uiVars, caller, sets, closing, instance, token,
                   c2d, glyph, tex>>

WorkerRecvC == WorkerRecv /\ UNCHANGED <<calls, cacheVars, poolVars, notCache>>
WorkerPerformC ==
    WorkerPerform(BatchOutcomes, FALSE) /\ UNCHANGED <<calls, cacheVars, poolVars, notCache>>

InitCache ==
    /\ CacheInit
    /\ CitroIdle
    /\ GlyphIdle
    /\ TexIdle
    /\ PoolInit
    /\ UiIdle
    /\ RetrieverInit
    /\ CallerInit
    /\ txt = <<>> /\ wrapWidth = 0 /\ wrapScale = 1 /\ lineWords = <<>>
    /\ textPc = "done"

NextCache ==
    \/ \E t \in Getters : \E images \in GetInputs : GetLock(t, images)
    \/ \E t \in Getters : GetSend(t)
    \/ \E t \in Getters : GetSent(t)
    \/ \E t \in Getters : GetRecv(t)
    \/ \E t \in Getters : GetFinish(t)
    \/ \E t \in CacheThreads : \E e \in 1..Len(webImages) : DropCheck(t, e)
    \/ \E t \in CacheThreads : DropRemove(t)
    \/ \E t \in CacheThreads : DropRelease(t)
    \/ WorkerRecvC
    \/ WorkerPerformC

SpecCache == InitCache /\ [][NextCache]_vars

\* the elements of a sequence
Range(s) == {s[i] : i \in 1..Len(s)}

\* the requests of the batch of thread t that ask for URL u
BatchRequestsFor(t, u) == {k \in 1..Len(cthread[t].info) : cthread[t].info[k] = u}

\* C2: whenever the last CachedImage handle of an entry releases it, the map
\* no longer holds that entry for its URL afterwards.
C2_RemovedAtZero ==
    [][\A e \in 1..Len(webImages) :
          (HandlesOf(e) > 0 /\ HandlesOf(e)' = 0) => entries'[webImages[e].url] # e]_vars

\* C3: once the batch of a get call is enqueued, it holds exactly one request
\* for every URL of the input that was not cached; when the call succeeds,
\* the handles returned for equal URLs reference the same WebImage.
C3_OneRequestPerUrl ==
    \A t \in CacheThreads :
        /\ (cthread[t].pc = "recv" \/ cthread[t].res = "ok") =>
              \A u \in Range(cthread[t].images) \ cthread[t].cached :
                  Cardinality(BatchRequestsFor(t, u)) = 1
        /\ cthread[t].res = "ok" =>
              \A i, j \in 1..Len(cthread[t].result) :
                  cthread[t].images[i] = cthread[t].images[j]
                      => cthread[t].result[i] = cthread[t].result[j]

\* a get of the same uncached URL twice has returned two handles
C3_Witness ==
    \E t \in CacheThreads :
        /\ cthread[t].res = "ok"
        /\ Len(cthread[t].images) = 2
        /\ cthread[t].images[1] = cthread[t].images[2]
        /\ cthread[t].images[1] \notin cthread[t].cached
        /\ Len(cthread[t].result) = 2
        /\ HandlesOf(cthread[t].result[1]) = 2

\* C9: a successful get returns one handle per input element; the i-th handle
\* references a WebImage whose key is the i-th input URL and whose image was
\* decoded from the response to a request for that URL.
C9_HandlesInOrder ==
    \A t \in CacheThreads :
        cthread[t].res = "ok" =>
            /\ Len(cthread[t].result) = Len(cthread[t].images)
            /\ \A i \in 1..Len(cthread[t].result) :
                  LET w == webImages[cthread[t].result[i]] IN
                  /\ w.url = cthread[t].images[i]
                  /\ w.body.kind = "ok"
                  /\ w.body.url = cthread[t].images[i]

\* a get of two different uncached URLs has succeeded
C9_Witness ==
    \E t \in CacheThreads :
        /\ cthread[t].res = "ok"
        /\ Len(cthread[t].images) = 2
        /\ cthread[t].images[1] # cthread[t].images[2]
        /\ Len(cthread[t].info) = 2
        /\ Len(cthread[t].result) = 2

\* thread t is inside get and the next response of its batch is an error
ErrorArrived(t) ==
    /\ cthread[t].pc = "recv"
    /\ cthread[t].k < Len(cthread[t].info)
    /\ chans[t].q # <<>>
    /\ Head(chans[t].q).kind # "ok"

\* the get call of thread t has returned an error
Failed(t) == cthread[t].res \in {"response_error", "decode_error"}

\* C15: a get call that meets an error response returns an error; a call
\* that returns an error, for a response or for a decoding failure, returns
\* no handle and creates none; a call that succeeds has decoded the
\* response of every request of its batch.
C15_AllOrNothing ==
    [][\A t \in Getters :
          /\ (ErrorArrived(t) /\ cthread'[t] # cthread[t])
                => cthread'[t].res = "response_error"
          /\ (~Failed(t) /\ Failed(t)')
                => /\ cthread'[t].pc = "idle"
                   /\ cthread'[t].result = <<>>
                   /\ handles' = handles
          /\ cthread'[t].res = "ok"
                => \A k \in 1..Len(cthread'[t].info) :
                      \E e \in 1..Len(webImages') :
                          /\ webImages'[e].body.kind = "ok"
                          /\ webImages'[e].body.for = <<t, cthread'[t].call, k>>]_vars

\* a get call has failed on its second response after the first one was
\* decoded and stored
C15_Witness ==
    \E t \in Getters :
        /\ Failed(t)
        /\ cthread[t].k = 1
        /\ Len(cthread[t].info) = 2
        /\ cthread[t].result = <<>>

\* C16: a WebImage that a live CachedImage handle holds, one whose drop has
\* not started, is the value that entries holds for its URL.
C16_HeldEntryInMap ==
    \A e \in 1..Len(webImages) :
        HandlesOf(e) > BeingDropped(e) => InMap(e)

\* thread t is blocked in responses.recv(): no response of its batch has
\* arrived yet
AwaitsResponse(t) ==
    /\ cthread[t].pc = "recv"
    /\ cthread[t].k < Len(cthread[t].info)
    /\ chans[t].q = <<>>

\* C17: no thread holds the lock of the cache map while it waits for a
\* response of the Retriever.
C17_NoLockAcrossWait ==
    \A t \in CacheThreads : ~(cacheLock.holder = t /\ AwaitsResponse(t))

\* the render thread: it drops the CachedImage handles of the screens it
\* replaces
RenderThread == 2

\* C18: the render thread is never blocked on the lock of the cache map
\* while the holder of that lock waits for a response of the Retriever.
C18_RenderNeverWaits ==
    ~(/\ cthread[RenderThread].pc = "drop_remove"
      /\ cacheLock.holder # 0
      /\ AwaitsResponse(cacheLock.holder))

\* no get call and no drop of a CachedImage is in progress
CacheQuiet == \A t \in CacheThreads : cthread[t].pc = "idle"

\* C32: when no get call and no handle drop is in progress, every entry of
\* the cache map is referenced by at least one live CachedImage handle; a
\* get that fails on a later response leaves no entry of an earlier response
\* of the same batch in the map.
C32_NoOrphanEntry ==
    CacheQuiet => \A u \in CacheUrls : entries[u] # 0 => HandlesOf(entries[u]) > 0

\* ------------------------------------------------------------------------
\* SpecGets: two threads call WebImageCache::get, each call waiting for the
\* Mutex around entries when the other thread holds it
\* ------------------------------------------------------------------------
\* get line 110, the call: the thread is about to lock entries; behind is
\* the thread whose get holds the lock at this moment (0: none)
GetCall(t) ==
    /\ cthread[t].pc = "idle"
    /\ calls + Cardinality({x \in CacheThreads : cthread[x].pc = "called"}) < MaxGets
    /\ cthread' = [cthread EXCEPT ![t] =
          [pc |-> "called", images |-> <<>>, info |-> <<>>, k |-> 0,
           result |-> <<>>, cached |-> {}, res |-> "", h |-> <<>>, call |-> 0,
           behind |-> cacheLock.holder]]
    /\ UNCHANGED <<retrieverVars, calls, entries, webImages, handles, cacheLock,
                   poolVars, notCache>>

\* get line 110: entries.lock() returns; nothing reads the argument of the
\* call before this point, so its value is drawn here
GetLockCalled(t, images) == GetLockAt("called", t, images)

\* in SpecGets a thread keeps nothing of a get that has returned but res
GetRecvG(t) == GetRecvAs(ReturnedBare, t)

GetFinishG(t) == GetFinishAs(ReturnedBare, t)

WorkerPerformG ==
    WorkerPerform(BatchOutcomes, TRUE) /\ UNCHANGED <<calls, cacheVars, poolVars, notCache>>

InitGets == InitCache

NextGets ==
    \/ \E t \in CacheThreads : GetCall(t)
    \/ \E t \in CacheThreads : \E images \in GetInputs : GetLockCalled(t, images)
    \/ \E t \in CacheThreads : GetSend(t)
    \/ \E t \in CacheThreads : GetSent(t)
    \/ \E t \in CacheThreads : GetRecvG(t)
    \/ \E t \in CacheThreads : GetFinishG(t)
    \/ WorkerRecvC
    \/ WorkerPerformG

SpecGets == InitGets /\ [][NextGets]_vars

\* the transfers performed for URL u on behalf of thread t
FetchesOf(t, u) == {i \in 1..Len(performed) : performed[i].id[1] = t /\ performed[i].url = u}

\* C26: a get call fetches every URL of its input that entries does not hold
\* when the call takes the lock, once per URL, whatever other get calls have
\* fetched: only the input of the call itself is deduplicated.
C26_PerCallDedup ==
    \A t \in CacheThreads :
        cthread[t].pc \in {"send", "recv"} =>
            /\ \A i, j \in 1..Len(cthread[t].info) :
                  cthread[t].info[i] = cthread[t].info[j] => i = j
            /\ Range(cthread[t].info) = Range(cthread[t].images) \ cthread[t].cached

\* thread 2 called get for a URL while the get of thread 1 for the same URL,
\* not cached before either call, held the lock; both calls missed and a
\* transfer for that URL was performed for each of them
C26_Witness ==
    \E u \in CacheUrls :
        /\ FetchesOf(1, u) # {} /\ FetchesOf(2, u) # {}
        /\ cthread[2].pc = "recv" /\ cthread[2].behind = 1
        /\ cthread[2].images = <<u>> /\ cthread[2].cached = {}
        /\ \A i \in FetchesOf(1, u) : \A j \in FetchesOf(2, u) : i < j

\* ------------------------------------------------------------------------
\* SpecFrame: Ui::iteration with lines 113-125 in their single steps, on the
\* Citro2d instance that Ui::new was given
\* ------------------------------------------------------------------------
\* what the steps of Ui::iteration after the drain leave alone
notFrame == <<poolVars, uiPool, screen, sent, applied, waiting, replies,
              retrieverVars, callerVars, textVars, cacheVars, glyph, tex>>

\* the Citro2d instance of the render thread
UiCitro == <<RenderThread, 1>>

\* one step of lines 113-125: the render thread moves from position from to
\* position to, and the step is noted in iter.steps
IterStep(from, to) ==
    /\ iter.pc = from
    /\ iter' = [iter EXCEPT !.pc = to, !.steps = Append(@, to)]

\* line 114: self.hid.scan_input()
PollInput ==
    /\ iter.pc = "update"
    /\ iter' = [iter EXCEPT !.pc = "polled", !.steps = <<"polled">>]
    /\ UNCHANGED <<c2d, notFrame>>

\* line 115: self.screen.update(&self.hid)
ScreenUpdate ==
    /\ IterStep("polled", "updated")
    /\ UNCHANGED <<c2d, notFrame>>

\* line 117: let frame = self.c2d.begin_frame()
IterBeginFrame ==
    /\ IterStep("updated", "begun")
    /\ FrameBegun(RenderThread, UiCitro)
    /\ UNCHANGED notFrame

\* lines 118-120: self.target.scene_2d(&frame, |ctx| self.screen.draw(..))
ScreenDraw ==
    /\ iter.pc = "begun"
    /\ iter' = [iter EXCEPT !.pc = "drawn", !.steps = Append(@, "drawn"),
                            !.shown = screen]
    /\ UNCHANGED <<c2d, notFrame>>

\* line 121: drop(frame), the call of C3D_FrameEnd ...
IterFrameEnd ==
    /\ IterStep("drawn", "ended")
    /\ FrameEnded(RenderThread)
    /\ UNCHANGED notFrame

\* ... and the release of FRAME_LOCK
IterFrameUnlock ==
    /\ IterStep("ended", "unlocked")
    /\ FrameUnlocked(RenderThread)
    /\ UNCHANGED notFrame

\* lines 121-123: wait_for_vblank() is called after drop(frame) has returned
VblankAnytime(pc) == pc \in {"drawn", "unlocked"}
VblankReady(pc) == pc = "unlocked"

\* lines 123-125: self.c2d.gfx().wait_for_vblank(); true
WaitVblank ==
    /\ VblankReady(iter.pc)
    /\ iter' = [iter EXCEPT !.pc = "top", !.steps = Append(@, "vblank"),
                            !.frame = @ + 1, !.drawn = @ + 1]
    /\ UNCHANGED <<c2d, notFrame>>

\* Ui::new on a Citro2d that Citro2d::new returned on the render thread
InitFrame ==
    /\ PoolInit
    /\ uiPool = {} /\ screen = 0
    /\ iter = [pc |-> "top", frame |-> 1, go |-> TRUE, drawn |-> 0, shown |-> 0,
               steps |-> <<>>]
    /\ sent = <<>> /\ applied = <<>>
    /\ waiting = [t \in Threads |-> ""]
    /\ replies = [t \in Threads |-> <<>>]
    /\ CacheIdle
    /\ GlyphIdle
    /\ TexIdle
    /\ c2d = [count |-> 1, lib |-> "on", made |-> 1, live |-> {UiCitro}, lock |-> 0,
              frames |-> {}, c3d |-> 0, begun |-> 0,
              pc |-> [t \in CitroThreads |-> "idle"]]
    /\ RetrieverInit
    /\ CallerInit
    /\ txt = <<>> /\ wrapWidth = 0 /\ wrapScale = 1 /\ lineWords = <<>>
    /\ textPc = "done"

NextFrame ==
    \/ \E t \in Logic : UiAlloc(t)
    \/ \E t \in Logic : SendKeyboard(t)
    \/ \E t \in Logic : SendWordWrap(t)
    \/ \E t \in Logic : RecvReply(t)
    \/ IterStart
    \/ DrainPop
    \/ DrainEmpty
    \/ PollInput
    \/ ScreenUpdate
    \/ IterBeginFrame
    \/ ScreenDraw
    \/ IterFrameEnd
    \/ IterFrameUnlock
    \/ WaitVblank

SpecFrame == InitFrame /\ [][NextFrame]_vars

\* a library frame is open
FrameInFlight == c2d.c3d > 0

\* where the render thread is while a frame is open, and while it holds
\* FRAME_LOCK; what it has done when an iteration has returned true
FrameScope ==
    /\ (iter.pc = "top" /\ iter.drawn > 0) =>
          iter.steps = <<"polled", "updated", "begun", "drawn", "ended",
                         "unlocked", "vblank">>
    /\ FrameInFlight <=> iter.pc \in {"begun", "drawn"}
    /\ (c2d.lock # 0) <=> iter.pc \in {"begun", "drawn", "ended"}
    /\ iter.pc \in {"drain", "unlocked"} => (c2d.lock = 0 /\ c2d.frames = {})

\* a message is popped and executed only by the drain, with no frame open;
\* the drain comes before the first of the noted steps, the poll of input
DrainOutsideFrame ==
    /\ applied' # applied => (iter.pc = "drain" /\ ~FrameInFlight /\ c2d.lock = 0)
    /\ (iter.pc = "drain" /\ iter'.pc = "update") => iter'.steps = iter.steps
    /\ (iter'.pc = "polled" /\ iter.pc # "polled") => iter.pc = "update"

\* C30: an iteration that has returned true went, after its drain, through
\* poll input, update, begin frame, draw, end frame (which frees the frame
\* lock) and vblank wait, in this order; a frame is open only between begin
\* and end, so the drain pops and executes every message (LoadImage
\* constructors, keyboard and word-wrap requests) with no frame open and the
\* frame lock free, and the lock is free during the vblank wait.
C30_StepOrder == []FrameScope /\ [][DrainOutsideFrame]_vars

\* a LoadImage, a Keyboard request and a WordWrap request were executed by
\* drains, and the second iteration has returned true
C30_Witness ==
    /\ iter.pc = "top" /\ iter.drawn = 2
    /\ c2d.begun = 2
    /\ \E i, j \in 1..Len(applied) :
          /\ applied[i].msg.kind = "LoadImage" /\ applied[i].frame = 1
          /\ applied[j].msg.kind = "Keyboard" /\ applied[j].frame = 2

\* ------------------------------------------------------------------------
\* SpecThreads: the logic thread builds one TimelineScreen after the other
\* (cache.get, then a WordWrap request, then SetScreen), the render thread
\* runs Ui::iteration, where a SetScreen drops the CachedImage handles of
\* the screen it replaces, and the Retriever worker runs its loop
\* ------------------------------------------------------------------------
LogicThread == 1

\* TimelineScreen::new lines 59-66: the avatars of the statuses, one URL
\* per status: a timeline of one status, and one of two statuses of two
\* accounts
TimelineAvatars == {<<MkUrl("example.social")>>,
                    <<MkUrl("example.social"), MkUrl("cdn.other.example")>>}

\* the messages of kind kind that the logic thread has sent
SentOf(kind) == Len(SelectSeq(sent, LAMBDA m : m.kind = kind))

\* TimelineScreen::new lines 59-85: the WordWrap request is sent after
\* cache.get has returned Ok, by a thread that is not inside get
InsideGet(t) == cacheLock.holder = t
AfterGet(t) == cthread[t].pc = "idle" /\ cthread[t].res = "ok"

\* the render thread is inside Ui::iteration and not inside the drop of a
\* CachedImage
RenderFree == cthread[RenderThread].pc = "idle"

\* TimelineScreen::new line 59: cache.get(..), called by a thread that is
\* not blocked in recv() and has handed over the screen it built before; a
\* TimelineScreen is built as long as MaxMsgs leaves room for a message of it
TGetLock(images) ==
    /\ waiting[LogicThread] = ""
    /\ SentOf("WordWrap") = SentOf("SetScreen")
    /\ 2 * calls < MaxMsgs
    /\ GetLock(LogicThread, images)

\* TimelineScreen::new lines 73-85: tx.send(UiMsg::WordWrap {..}) and
\* lines_rx.recv()
TSendWordWrap ==
    /\ AfterGet(LogicThread)
    /\ SentOf("WordWrap") = SentOf("SetScreen")
    /\ SentOf("WordWrap") < calls
    /\ SendWordWrap(LogicThread)

\* the screen that TimelineScreen::new returned is handed to the render
\* thread
TSendSetScreen ==
    /\ SentOf("WordWrap") = SentOf("SetScreen") + 1
    /\ SendSetScreen(LogicThread)

\* Ui::iteration line 84: self.screen = screen drops the Box of the screen
\* replaced, and with it the CachedImage handles that screen owns
ScreenDrop(e) ==
    /\ iter.pc = "drain"
    /\ screen # 0
    /\ DropCheck(RenderThread, e)

RIterGo == RenderFree /\ IterGo
RDrainPop == RenderFree /\ DrainPopAs(Unlogged)
RDrainEmpty == RenderFree /\ DrainEmpty
RRedraw == RenderFree /\ Redraw

InitThreads ==
    /\ CacheInit
    /\ PoolInit
    /\ UiInit
    /\ CitroIdle
    /\ GlyphIdle
    /\ TexIdle
    /\ RetrieverInit
    /\ CallerInit
    /\ txt = <<>> /\ wrapWidth = 0 /\ wrapScale = 1 /\ lineWords = <<>>
    /\ textPc = "done"

LogicStep ==
    \/ \E images \in TimelineAvatars : TGetLock(images)
    \/ GetSend(LogicThread)
    \/ GetSent(LogicThread)
    \/ GetRecvG(LogicThread)
    \/ GetFinishG(LogicThread)
    \/ TSendWordWrap
    \/ TSendSetScreen
    \/ RecvReply(LogicThread)

RenderThreadStep ==
    \/ RIterGo
    \/ RDrainPop
    \/ RDrainEmpty
    \/ RRedraw
    \/ \E e \in 1..Len(webImages) : ScreenDrop(e)
    \/ DropRemove(RenderThread)
    \/ DropRelease(RenderThread)

WorkerStep == WorkerRecvC \/ WorkerPerformC

NextThreads == LogicStep \/ RenderThreadStep \/ WorkerStep

SpecThreads == InitThreads /\ [][NextThreads]_vars

\* the render thread has not panicked (a panic of the main thread ends the
\* program)
RenderAlive == cthread[RenderThread].pc # "panicked"

\* the render thread can take a step: Ui::iteration has a next statement at
\* each of its positions, the drop of a handle waits only for the lock of
\* the cache map (image.rs line 154)
RenderCanStep ==
    \/ RenderFree /\ iter.pc \in {"top", "drain", "update"}
    \/ cthread[RenderThread].pc = "drop_release"
    \/ cthread[RenderThread].pc = "drop_remove" /\ cacheLock.holder = 0

\* C37: the logic thread never holds the lock of the cache map while it is
\* blocked waiting for a reply of the render thread (the lock of used_ids
\* is taken and released inside one step), and as long as the render thread
\* lives at least one of the three threads can take a step.
C37_NoDeadlock ==
    /\ waiting[LogicThread] # "" => cacheLock.holder # LogicThread
    /\ RenderAlive =>
          (RenderCanStep \/ ENABLED WorkerStep \/ ENABLED LogicStep)

\* the render thread is blocked on the lock of the cache map in the drop of
\* a handle, the logic thread holds that lock inside get and is blocked on
\* the response, and the worker holds the request
C37_Witness ==
    /\ cthread[RenderThread].pc = "drop_remove"
    /\ cacheLock.holder = LogicThread
    /\ AwaitsResponse(LogicThread)
    /\ worker.pc = "busy"
    /\ ~RenderCanStep

\* ------------------------------------------------------------------------
\* ui/citro2d.rs: TexDim::to_fit
\* ------------------------------------------------------------------------
\* the width of u16, the type of dim and of the shifted 1
U16Bits == 16
\* TexDim::MAX, and the smallest dimension to_fit returns
TexDimMax == 1024
TexDimMin == 8

Pow2(n) == 2 ^ n

\* the values of a u16
U16 == 0..(Pow2(U16Bits) - 1)

\* u16::ilog2 for dim > 0: the position of the highest set bit
ilog2(dim) == CHOOSE k \in 0..(U16Bits - 1) : Pow2(k) <= dim /\ dim < Pow2(k + 1)

\* 1 << n on a u16. A shift by the width of the type or more overflows: a
\* build with overflow checks panics, a build without them masks the amount
\* to the width of the type.
Shl(n, checked) ==
    IF n < U16Bits THEN [kind |-> "val", val |-> Pow2(n)]
    ELSE IF checked THEN [kind |-> "panic", val |-> 0]
    ELSE [kind |-> "val", val |-> Pow2(n % U16Bits)]

TexOk(v) == [kind |-> "Ok", val |-> v]
TexErr == [kind |-> "TexDimError", val |-> 0]
TexPanic == [kind |-> "panic", val |-> 0]

\* TexDim::to_fit(dim), lines 287-301
to_fit(dim, checked) ==
    IF dim < TexDimMin THEN TexOk(TexDimMin)
    ELSE LET log2 == ilog2(dim)
             next == Shl(log2 + 1, checked)
         IN IF Shl(log2, checked).val # dim /\ next.kind = "panic" THEN TexPanic
            ELSE LET result == IF Shl(log2, checked).val = dim THEN dim ELSE next.val
                 IN IF result > TexDimMax THEN TexErr ELSE TexOk(result)

\* a call of TexDim::to_fit(dim), in a build with or without overflow checks
InitTex ==
    /\ CacheInit
    /\ PoolInit
    /\ UiInit
    /\ CitroIdle
    /\ GlyphIdle
    /\ RetrieverInit
    /\ CallerInit
    /\ txt = <<>> /\ wrapWidth = 0 /\ wrapScale = 1 /\ lineWords = <<>>
    /\ textPc = "done"
    /\ \E dim \in U16 : \E checked \in BOOLEAN :
          tex = [pc |-> "call", dim |-> dim, checked |-> checked, res |-> <<>>]

ToFit ==
    /\ tex.pc = "call"
    /\ tex' = [tex EXCEPT !.pc = "done", !.res = <<to_fit(tex.dim, tex.checked)>>]
    /\ UNCHANGED <<retrieverVars, callerVars, textVars, poolVars, uiVars, cacheVars,
                   c2d, glyph>>

NextTex == ToFit

SpecTex == InitTex /\ [][NextTex]_vars

\* the smallest power of two that is at least n
CeilPow2(n) == Pow2(CHOOSE k \in 0..U16Bits : Pow2(k) >= n /\ (k = 0 \/ Pow2(k - 1) < n))

\* what the claim expects of to_fit(dim)
Fitted(dim) ==
    LET want == CeilPow2(IF dim < TexDimMin THEN TexDimMin ELSE dim)
    IN IF want <= TexDimMax THEN TexOk(want) ELSE TexErr

\* C40: for every 16-bit dim, to_fit(dim) is the smallest power of two that
\* is at least max(dim, 8) when that is at most 1024, and TexDimError
\* otherwise, also for dim above 32768.
C40_ToFit == tex.pc = "done" /\ tex.res # <<>> => tex.res[1] = Fitted(tex.dim)

====
